---- MODULE Spec2Model ----
(***************************************************************************)
(* EventLedger: the log-and-subscription engine over one DynamoDB table.   *)
(*                                                                         *)
(* The model follows src/lambdas/shared/src/dynamo.rs (DynamoClient),      *)
(* src/lambdas/poll/src/main.rs (handle_poll, handle_commit) and           *)
(* src/lambdas/shared/src/partitioner.rs.  One stream id is modelled; its  *)
(* rows are the variables meta, counter, events, subs and offsets.  Every  *)
(* request is served by a worker (a Lambda invocation); a worker's task    *)
(* record holds the local variables of the handler and its position, and   *)
(* each action is the code between two awaits on the store, so that the    *)
(* interleavings of concurrent invocations are those of their store calls. *)
(***************************************************************************)
EXTENDS Integers, Sequences, FiniteSets, TLC

\* ------------------------------------------------------------------------
\* Bounds of the model
\* ------------------------------------------------------------------------
MaxPartitionCount == 2
MaxSeq == 2
MaxBatch == 2
MaxLimit == 2
MaxClock == 1
MaxRecords == 3
MaxPartitionerCount == 5
MaxEvaluations == 2

\* ------------------------------------------------------------------------
\* Inputs
\* ------------------------------------------------------------------------
Workers == {"w1", "w2", "w3"}
Keys == {"x", "k1"}
EventTypes == {"t"}
Data == {"d1", "d2"}
RetentionHours == {24, 168}
Subs == {"s1", "s2"}
PartitionCounts == 1..MaxPartitionCount
Limits == 0..MaxLimit

\* models::PublishEvent
PublishEvents == [key : Keys, event_type : EventTypes, data : Data]

\* events of one key with every payload
PayloadEvents == [key : {"x"}, event_type : EventTypes, data : Data]

\* the events of the scenarios where the payload plays no part
PlainEvents == [key : Keys, event_type : EventTypes, data : {"d1"}]

RECURSIVE SeqsUpTo(_, _)
SeqsUpTo(S, n) ==
    IF n = 0 THEN {<<>>}
    ELSE LET shorter == SeqsUpTo(S, n - 1)
         IN  shorter \cup {Append(q, e) : q \in {r \in shorter : Len(r) = n - 1}, e \in S}

\* the non-empty batches a publish request may carry
Batches(S) == SeqsUpTo(S, MaxBatch) \ {<<>>}

\* ------------------------------------------------------------------------
\* State
\* ------------------------------------------------------------------------
VARIABLES
    meta,       \* the row (STREAM#sid, META): {} or {[partition_count, retention_hours, created_at]}
    counter,    \* rows (STREAM#sid#P<p>, COUNTER): function p -> sequence, defined where the row exists
    events,     \* rows (STREAM#sid#P<p>, SEQ#<seq>): function <<p, seq>> -> event, defined where the row exists
    subs,       \* rows (STREAM#sid, SUB#<sub>): function sub -> [created_at]
    offsets,    \* rows (STREAM#sid#SUB#<sub>, OFFSET#P<p>): function <<sub, p>> -> [offset, committed_at]
    clock,      \* the wall clock read by Utc::now()
    task,       \* per worker: the handler it runs, its locals and its position
    hiSeq,      \* history: per partition, the highest sequence increment_sequence has returned
    delivered,  \* history: per subscription, the <<p, seq>> of the events poll responses carried
    lastCommit, \* history: per subscription, the offsets of the last completed commit while no later OFFSET write happened
    stable,     \* history: per worker, no row was written since the last poll of the worker began
    era,        \* history: per subscription, "none" until create_subscription is called, "creating" until it returns Ok, then "created"
    eraOf,      \* history: per event row and subscription, whether the row was written "before" the call of
                \* create_subscription, by a publish called "after" its return, or "during" neither
    compacted,  \* rows (STREAM#sid#COMPACT, KEY#<key>): function key -> CompactedEvent, defined where the row exists
    acked,      \* the change feed: the change records of batches the compactor handler has returned Ok for
    reach       \* history: per subscription and partition, the counter of the partition when the SUB row was put
                \* plus the sequences allocated on it since, counted up to MaxSeq

tableVars == <<meta, counter, events, subs, offsets, compacted>>
histVars == <<hiSeq, delivered, lastCommit, stable, era, eraOf, reach>>
vars == <<meta, counter, events, subs, offsets, clock, task, hiSeq, delivered, lastCommit,
         stable, era, eraOf, compacted, acked, reach>>

\* ------------------------------------------------------------------------
\* Store primitives on rows kept as partial functions
\* ------------------------------------------------------------------------
\* put_item without condition: create or replace the row
Put(f, k, v) == [x \in DOMAIN f \cup {k} |-> IF x = k THEN v ELSE f[x]]

\* delete_item: remove the row when it exists
Delete(f, k) == [x \in DOMAIN f \ {k} |-> f[x]]

Max(a, b) == IF a >= b THEN a ELSE b

Min(a, b) == IF a <= b THEN a ELSE b

Range(s) == {s[i] : i \in DOMAIN s}

\* Utc::now(): the clock does not go back; it is read as t
Now(t) == t \in {clock, clock + 1} /\ t <= MaxClock /\ clock' = t

\* a row is written
Wrote == stable' = [w \in Workers |-> FALSE]

Idle == [op |-> "idle"]
Done(call, result) == [op |-> "done", call |-> call, result |-> result]
Busy(w) == task[w].op \notin {"idle", "done", "polled"}

\* a handler that returned Err(LambdaError) by `?`: the invocation fails and
\* no response is built from the error
Failed(call, error) ==
    [op |-> "done", call |-> call, result |-> "LambdaError", error |-> error]

\* a handler that panicked: the invocation ends without result and without
\* typed error
Panicked(call, message) ==
    [op |-> "done", call |-> call, result |-> "Panic", message |-> message]

\* Error::status_code
status_code(e) ==
    CASE e = "StreamNotFound" -> 404
      [] e = "StreamAlreadyExists" -> 409
      [] e = "SubscriptionNotFound" -> 404
      [] e = "SubscriptionAlreadyExists" -> 409
      [] e = "InvalidCursor" -> 400
      [] e = "Validation" -> 400
      [] e = "Database" -> 500

\* error_response: the status and the body's code are those of the error
error_response(e) == [status |-> status_code(e), code |-> e]

\* ------------------------------------------------------------------------
\* Partitioner (partitioner.rs)
\* ------------------------------------------------------------------------
\* the first four bytes of SHA-256(key), big endian, for the keys of the model
HashPrefix(key) ==
    CASE key = "x"  -> 762385986
      [] key = "k1" -> 1790570987
      [] key = "k2" -> 23035499
      [] key = "b"  -> 1042540566

\* the prefix as its two 16-bit halves; that of the empty key, e3b0c442, is
\* above 2^31
HashHalves(key) ==
    IF key = "" THEN <<58288, 50242>>
    ELSE <<HashPrefix(key) \div 65536, HashPrefix(key) % 65536>>

\* hash_value % partition_count
partition_ModuloPlusOne(key, partition_count) ==
    LET h == HashHalves(key)
    IN  ((h[1] % (partition_count + 1)) * (65536 % (partition_count + 1)) + h[2])
            % (partition_count + 1)
partition(key, partition_count) ==
    LET h == HashHalves(key)
    IN  ((h[1] % partition_count) * (65536 % partition_count) + h[2]) % partition_count

\* Partitioner::new: the assertion, then the partitioner of that count.  The
\* field results (the keys asked and the partitions answered) records
\* history.
NewPartitioner(w, partition_count) ==
    /\ ~Busy(w)
    /\ task' = [task EXCEPT ![w] =
           IF partition_count > 0
           THEN [op |-> "partitioner", partition_count |-> partition_count,
                 results |-> <<>>]
           ELSE Panicked("partitioner", "partition_count must be > 0")]
    /\ UNCHANGED <<tableVars, clock, histVars>>
    /\ UNCHANGED <<acked, reach>>

\* Partitioner::partition of a key on the partitioner w holds
Partition(w, key) ==
    /\ task[w].op = "partitioner"
    /\ Len(task[w].results) < MaxEvaluations
    /\ task' = [task EXCEPT ![w] =
           [@ EXCEPT !.results =
               Append(@, [key |-> key,
                          partition |-> partition(key, task[w].partition_count)])]]
    /\ UNCHANGED <<tableVars, clock, histVars>>
    /\ UNCHANGED <<acked, reach>>

\* ------------------------------------------------------------------------
\* create_stream
\* ------------------------------------------------------------------------
\* the stream the requests name
StreamId == "sid"

\* condition_expression attribute_not_exists(PK) of the META put fails
MetaPutRejected_Never == FALSE
MetaPutRejected == meta # {}

\* Stream::new and the conditional put of META; nothing of the request is
\* looked at before
CreateStreamOf(w, req) ==
    /\ ~Busy(w)
    /\ \E t \in 0..MaxClock :
        /\ Now(t)
        /\ IF MetaPutRejected
           THEN /\ task' = [task EXCEPT ![w] = Done("create_stream", "StreamAlreadyExists")]
                /\ UNCHANGED <<meta, stable>>
           ELSE /\ Wrote
                /\ meta' = {[stream_id |-> req.stream_id,
                             partition_count |-> req.partition_count,
                             retention_hours |-> req.retention_hours,
                             created_at |-> t]}
                /\ task' = [task EXCEPT ![w] =
                       IF req.partition_count = 0
                       THEN Done("create_stream", "Ok")
                       ELSE [op |-> "create_stream", partition_count |-> req.partition_count,
                             partition |-> 0]]
    /\ UNCHANGED <<counter, events, subs, offsets, hiSeq, delivered, lastCommit, era, eraOf>>
    /\ UNCHANGED <<compacted, acked, reach>>

CreateStreamBegin(w, partition_count, retention_hours) ==
    CreateStreamOf(w, [stream_id |-> StreamId, partition_count |-> partition_count,
                       retention_hours |-> retention_hours])

\* init_partition_counter for the next partition of the loop
InitPartitionCounter_AtOne(w) ==
    /\ task[w].op = "create_stream"
    /\ counter' = Put(counter, task[w].partition, 1)
    /\ task' = [task EXCEPT ![w] =
           IF task[w].partition + 1 = task[w].partition_count
           THEN Done("create_stream", "Ok")
           ELSE [@ EXCEPT !.partition = @ + 1]]
    /\ Wrote
    /\ UNCHANGED <<meta, events, subs, offsets, clock, hiSeq, delivered, lastCommit, era, eraOf>>
    /\ UNCHANGED <<compacted, acked, reach>>
InitPartitionCounter(w) ==
    /\ task[w].op = "create_stream"
    /\ counter' = Put(counter, task[w].partition, 0)
    /\ task' = [task EXCEPT ![w] =
           IF task[w].partition + 1 = task[w].partition_count
           THEN Done("create_stream", "Ok")
           ELSE [@ EXCEPT !.partition = @ + 1]]
    /\ Wrote
    /\ UNCHANGED <<meta, events, subs, offsets, clock, hiSeq, delivered, lastCommit, era, eraOf>>
    /\ UNCHANGED <<compacted, acked, reach>>

\* init_partition_counter whose put_item the store answers with an error:
\* create_stream returns Error::Database by `?`; the META row and the
\* counters written so far stay
InitPartitionCounterFails(w) ==
    /\ task[w].op = "create_stream"
    /\ task' = [task EXCEPT ![w] = Done("create_stream", "Database")]
    /\ UNCHANGED <<tableVars, clock, histVars>>
    /\ UNCHANGED <<acked, reach>>

\* ------------------------------------------------------------------------
\* GET /streams/{stream_id}
\* ------------------------------------------------------------------------
GetStream(w) ==
    /\ ~Busy(w)
    /\ task' = [task EXCEPT ![w] =
           Done("get_stream", IF meta = {} THEN "StreamNotFound" ELSE "Ok")]
    /\ UNCHANGED <<tableVars, clock, histVars>>
    /\ UNCHANGED <<acked, reach>>

\* GET /streams: list_streams, the scan for the META rows
ListStreams(w) ==
    /\ ~Busy(w)
    /\ task' = [task EXCEPT ![w] =
           [op |-> "done", call |-> "list_streams", result |-> "Ok", streams |-> meta]]
    /\ UNCHANGED <<tableVars, clock, histVars>>
    /\ UNCHANGED <<acked, reach>>

\* ------------------------------------------------------------------------
\* delete_stream
\* ------------------------------------------------------------------------
\* get_stream, then delete_item of META
DeleteStreamBegin_Unchecked(w) ==
    /\ ~Busy(w)
    /\ task' = [task EXCEPT ![w] =
           [op |-> "delete_stream", pc |-> "meta",
            partition_count |-> IF meta = {} THEN 0
                                ELSE (CHOOSE stream \in meta : TRUE).partition_count,
            partition |-> 0]]
    /\ UNCHANGED <<tableVars, clock, histVars>>
    /\ UNCHANGED <<acked, reach>>
DeleteStreamBegin(w) ==
    /\ ~Busy(w)
    /\ IF meta = {}
       THEN task' = [task EXCEPT ![w] = Done("delete_stream", "StreamNotFound")]
       ELSE \E stream \in meta :
              task' = [task EXCEPT ![w] =
                  [op |-> "delete_stream", pc |-> "meta",
                   partition_count |-> stream.partition_count, partition |-> 0]]
    /\ UNCHANGED <<tableVars, clock, histVars>>
    /\ UNCHANGED <<acked, reach>>

\* delete_item of META; the rows that depend on the stream are left
DeleteMeta_Cascade(w) ==
    /\ task[w].op = "delete_stream"
    /\ task[w].pc = "meta"
    /\ meta' = {}
    /\ subs' = [s \in {} |-> 0]
    /\ offsets' = [k \in {} |-> 0]
    /\ task' = [task EXCEPT ![w] =
           IF task[w].partition_count = 0
           THEN Done("delete_stream", "Ok")
           ELSE [@ EXCEPT !.pc = "counters"]]
    /\ Wrote
    /\ UNCHANGED <<counter, events, clock, hiSeq, delivered, lastCommit, era, eraOf>>
    /\ UNCHANGED <<compacted, acked, reach>>
DeleteMeta(w) ==
    /\ task[w].op = "delete_stream"
    /\ task[w].pc = "meta"
    /\ meta' = {}
    /\ task' = [task EXCEPT ![w] =
           IF task[w].partition_count = 0
           THEN Done("delete_stream", "Ok")
           ELSE [@ EXCEPT !.pc = "counters"]]
    /\ Wrote
    /\ UNCHANGED <<counter, events, subs, offsets, clock, hiSeq, delivered, lastCommit, era, eraOf>>
    /\ UNCHANGED <<compacted, acked, reach>>

\* delete_item of the COUNTER row of the next partition of the loop
DeleteCounter(w) ==
    /\ task[w].op = "delete_stream"
    /\ task[w].pc = "counters"
    /\ counter' = Delete(counter, task[w].partition)
    /\ task' = [task EXCEPT ![w] =
           IF task[w].partition + 1 = task[w].partition_count
           THEN Done("delete_stream", "Ok")
           ELSE [@ EXCEPT !.partition = @ + 1]]
    /\ Wrote
    /\ UNCHANGED <<meta, events, subs, offsets, clock, hiSeq, delivered, lastCommit, era, eraOf>>
    /\ UNCHANGED <<compacted, acked, reach>>

\* ------------------------------------------------------------------------
\* publish_events
\* ------------------------------------------------------------------------
\* get_stream, Partitioner::new and Utc::now() before the loop
PublishBegin(w, evs) ==
    /\ ~Busy(w)
    /\ IF meta = {}
       THEN /\ task' = [task EXCEPT ![w] = Done("publish", "StreamNotFound")]
            /\ UNCHANGED clock
       ELSE IF \E stream \in meta : stream.partition_count = 0
       THEN \* assert!(partition_count > 0) of Partitioner::new
            /\ task' = [task EXCEPT ![w] =
                   Panicked("publish", "partition_count must be > 0")]
            /\ UNCHANGED clock
       ELSE \E stream \in meta, t \in 0..MaxClock :
              /\ Now(t)
              /\ task' = [task EXCEPT ![w] =
                     [op |-> "publish", pc |-> "increment", events |-> evs, i |-> 1,
                      partition_count |-> stream.partition_count, now |-> t,
                      sequence |-> 0, published |-> <<>>, era |-> era]]
    /\ UNCHANGED <<tableVars, histVars>>
    /\ UNCHANGED <<acked, reach>>

\* the publish handler: the check of events.is_empty(), answered with 400
\* validation_error, then publish_events
PublishRequest(w, evs) ==
    IF evs = <<>>
    THEN /\ ~Busy(w)
         /\ task' = [task EXCEPT ![w] = Done("publish", "Validation")]
         /\ UNCHANGED <<tableVars, clock, histVars>>
         /\ UNCHANGED <<acked, reach>>
    ELSE PublishBegin(w, evs)

\* the partition of the event the loop is at
EventPartition_ByPosition(w) == (task[w].i - 1) % task[w].partition_count
EventPartition(w) == partition(task[w].events[task[w].i].key, task[w].partition_count)

\* update_item SET sequence = sequence + 1 on the COUNTER row
IncrementedCounter_LostUpdate(p) == counter
IncrementedCounter(p) == [counter EXCEPT ![p] = @ + 1]

\* increment_sequence for the event the loop is at
IncrementSequence(w) ==
    /\ task[w].op = "publish"
    /\ task[w].pc = "increment"
    /\ LET p == EventPartition(w)
       IN  IF p \notin DOMAIN counter
           THEN \* the update expression names an attribute of a row that does not exist
                /\ task' = [task EXCEPT ![w] = Done("publish", "Database")]
                /\ UNCHANGED <<counter, hiSeq, stable, reach>>
           ELSE /\ counter[p] < MaxSeq
                /\ Wrote
                /\ counter' = IncrementedCounter(p)
                /\ task' = [task EXCEPT ![w] =
                       [@ EXCEPT !.pc = "put", !.sequence = counter[p] + 1]]
                /\ hiSeq' = [hiSeq EXCEPT ![p] = Max(@, counter[p] + 1)]
                /\ reach' = [k \in DOMAIN reach |->
                       IF k[2] = p THEN Min(reach[k] + 1, MaxSeq) ELSE reach[k]]
    /\ UNCHANGED <<meta, events, subs, offsets, clock, delivered, lastCommit, era, eraOf>>
    /\ UNCHANGED <<compacted, acked>>

\* the Event the loop stores for the event it is at
StoredEvent(w) ==
    LET ev == task[w].events[task[w].i]
    IN  [partition |-> EventPartition(w), sequence |-> task[w].sequence, key |-> ev.key,
         event_type |-> ev.event_type, data |-> ev.data, timestamp |-> task[w].now]

\* put_item of the event row, then the push of its PublishedEvent
PutEvent(w) ==
    /\ task[w].op = "publish"
    /\ task[w].pc = "put"
    /\ LET e == StoredEvent(w)
           k == <<e.partition, e.sequence>>
           published == Append(task[w].published,
                               [partition |-> e.partition, sequence |-> e.sequence,
                                key |-> e.key, timestamp |-> e.timestamp])
       IN  /\ events' = Put(events, k, e)
           /\ eraOf' = Put(eraOf, k,
                  [s \in Subs |-> IF era[s] = "none" THEN "before"
                                  ELSE IF task[w].era[s] = "created" THEN "after"
                                  ELSE "during"])
           /\ task' = [task EXCEPT ![w] =
                  IF task[w].i = Len(task[w].events)
                  THEN [op |-> "done", call |-> "publish", result |-> "Ok",
                        published |-> published]
                  ELSE [@ EXCEPT !.pc = "increment", !.i = @ + 1, !.published = published]]
    /\ Wrote
    /\ UNCHANGED <<meta, counter, subs, offsets, clock, hiSeq, delivered, lastCommit, era>>
    /\ UNCHANGED <<compacted, acked, reach>>

\* The loop is left by `?` with Error::Database when the store answers a call
\* with an error: the call returns the error and nothing is undone.  The field
\* published (what the loop had pushed) records history; the response does
\* not carry it.
PublishFailed(w) ==
    [op |-> "done", call |-> "publish", result |-> "Database",
     published |-> task[w].published]

\* increment_sequence whose update_item the store answers with an error
IncrementSequenceFails(w) ==
    /\ task[w].op = "publish"
    /\ task[w].pc = "increment"
    /\ task' = [task EXCEPT ![w] = PublishFailed(w)]
    /\ UNCHANGED <<tableVars, clock, histVars>>
    /\ UNCHANGED <<acked, reach>>

\* put_item of the event row that the store answers with an error: the
\* sequence stays allocated, no row is written
PutEventFails_Rollback(w) ==
    /\ task[w].op = "publish"
    /\ task[w].pc = "put"
    /\ task' = [task EXCEPT ![w] = PublishFailed(w)]
    /\ events' = [k \in DOMAIN events \
                        {<<pe.partition, pe.sequence>> : pe \in Range(task[w].published)} |->
                     events[k]]
    /\ UNCHANGED <<meta, counter, subs, offsets, compacted, clock, histVars>>
    /\ UNCHANGED <<acked, reach>>
PutEventFails(w) ==
    /\ task[w].op = "publish"
    /\ task[w].pc = "put"
    /\ task' = [task EXCEPT ![w] = PublishFailed(w)]
    /\ UNCHANGED <<tableVars, clock, histVars>>
    /\ UNCHANGED <<acked, reach>>

\* ------------------------------------------------------------------------
\* create_subscription
\* ------------------------------------------------------------------------
StartFrom == {"earliest", "latest", "compacted"}

\* get_stream
SubscribeBegin(w, sub, start_from) ==
    /\ ~Busy(w)
    /\ IF meta = {}
       THEN /\ task' = [task EXCEPT ![w] = Done("create_subscription", "StreamNotFound")]
            /\ UNCHANGED era
       ELSE /\ \E stream \in meta :
                 task' = [task EXCEPT ![w] =
                     [op |-> "create_subscription", pc |-> "put", sub |-> sub,
                      start_from |-> start_from, partition_count |-> stream.partition_count,
                      partition |-> 0, offset |-> 0]]
            /\ era' = [era EXCEPT ![sub] = IF @ = "none" THEN "creating" ELSE @]
    /\ UNCHANGED <<tableVars, clock, hiSeq, delivered, lastCommit, stable, eraOf>>
    /\ UNCHANGED <<acked, reach>>

\* condition_expression attribute_not_exists(PK) of the SUB put fails
SubPutRejected_Never(sub) == FALSE
SubPutRejected(sub) == sub \in DOMAIN subs

\* get_latest_offset(..).unwrap_or(0): the sequence of the COUNTER row, 0 when it is missing
get_latest_offset_Zero(p) == 0
get_latest_offset(p) == IF p \in DOMAIN counter THEN counter[p] ELSE 0

\* Subscription::new and the conditional put of the SUB row.  The value of
\* initial_offset is used by the Earliest and Compacted arms only, where it
\* is 0; the read of counter 0 made for it under Latest changes nothing.
SubscribePut(w) ==
    /\ task[w].op = "create_subscription"
    /\ task[w].pc = "put"
    /\ \E t \in 0..MaxClock :
        /\ Now(t)
        /\ IF SubPutRejected(task[w].sub)
           THEN /\ task' = [task EXCEPT ![w] =
                       Done("create_subscription", "SubscriptionAlreadyExists")]
                /\ UNCHANGED <<subs, stable, era, reach>>
           ELSE /\ Wrote
                /\ era' = [era EXCEPT ![task[w].sub] =
                       IF task[w].partition_count = 0 THEN "created" ELSE @]
                /\ subs' = Put(subs, task[w].sub, [created_at |-> t])
                /\ reach' = [k \in DOMAIN reach \cup ({task[w].sub} \X (0..(MaxPartitionCount - 1))) |->
                       IF k[1] = task[w].sub THEN get_latest_offset(k[2]) ELSE reach[k]]
                /\ task' = [task EXCEPT ![w] =
                       IF task[w].partition_count = 0
                       THEN Done("create_subscription", "Ok")
                       ELSE [@ EXCEPT !.pc = IF task[w].start_from = "latest"
                                             THEN "counter" ELSE "offset"]]
    /\ UNCHANGED <<meta, counter, events, offsets, hiSeq, delivered, lastCommit, eraOf>>
    /\ UNCHANGED <<compacted, acked>>

\* the read of the counter of the partition the loop is at (Latest only)
SubscribeReadCounter(w) ==
    /\ task[w].op = "create_subscription"
    /\ task[w].pc = "counter"
    /\ task' = [task EXCEPT ![w] =
           [@ EXCEPT !.pc = "offset", !.offset = get_latest_offset(task[w].partition)]]
    /\ UNCHANGED <<tableVars, clock, histVars>>
    /\ UNCHANGED <<acked, reach>>

\* set_offset: put_item of the OFFSET row, without condition
set_offset_Monotonic(sub, p, offset, t) ==
    Put(offsets, <<sub, p>>,
        [offset |-> IF <<sub, p>> \in DOMAIN offsets
                    THEN Max(offsets[<<sub, p>>].offset, offset) ELSE offset,
         committed_at |-> t])
set_offset(sub, p, offset, t) == Put(offsets, <<sub, p>>, [offset |-> offset, committed_at |-> t])

\* set_offset for the partition the loop is at
SubscribeSetOffset(w) ==
    /\ task[w].op = "create_subscription"
    /\ task[w].pc = "offset"
    /\ \E t \in 0..MaxClock :
        /\ Now(t)
        /\ offsets' = set_offset(task[w].sub, task[w].partition, task[w].offset, t)
    /\ task' = [task EXCEPT ![w] =
           IF task[w].partition + 1 = task[w].partition_count
           THEN Done("create_subscription", "Ok")
           ELSE [@ EXCEPT !.partition = @ + 1, !.offset = 0,
                          !.pc = IF task[w].start_from = "latest"
                                 THEN "counter" ELSE "offset"]]
    /\ lastCommit' = [lastCommit EXCEPT ![task[w].sub] = <<>>]
    /\ era' = [era EXCEPT ![task[w].sub] =
           IF task[w].partition + 1 = task[w].partition_count THEN "created" ELSE @]
    /\ Wrote
    /\ UNCHANGED <<meta, counter, events, subs, hiSeq, delivered, eraOf>>
    /\ UNCHANGED <<compacted, acked, reach>>

\* ------------------------------------------------------------------------
\* handle_poll
\* ------------------------------------------------------------------------
RECURSIVE Ascending(_)
Ascending(S) ==
    IF S = {} THEN <<>>
    ELSE LET m == CHOOSE x \in S : \A y \in S : x <= y
         IN  <<m>> \o Ascending(S \ {m})

Prefix(s, n) == SubSeq(s, 1, Min(n, Len(s)))

\* read_events: the rows of the partition with SK > SEQ#<from_offset>, in SK
\* order, at most limit of them
AfterOffset_Inclusive(seq, from_offset) == seq >= from_offset
AfterOffset(seq, from_offset) == seq > from_offset

read_events_Descending(p, from_offset, limit) ==
    LET found == {k[2] : k \in {j \in DOMAIN events :
                                  j[1] = p /\ AfterOffset(j[2], from_offset)}}
        page == Prefix(Ascending(found), limit)
    IN  [i \in DOMAIN page |-> events[<<p, page[Len(page) + 1 - i]>>]]
read_events(p, from_offset, limit) ==
    LET found == {k[2] : k \in {j \in DOMAIN events :
                                  j[1] = p /\ AfterOffset(j[2], from_offset)}}
        page == Prefix(Ascending(found), limit)
    IN  [i \in DOMAIN page |-> events[<<p, page[i]>>]]

\* get_offset(..).unwrap_or(0): the offset of the OFFSET row, 0 when it is missing
get_offset(sub, p) == IF <<sub, p>> \in DOMAIN offsets THEN offsets[<<sub, p>>].offset ELSE 0

\* all_events.sort_by(timestamp): a stable sort
RECURSIVE SortByTimestamp(_)
SortByTimestamp(s) ==
    IF s = <<>> THEN <<>>
    ELSE LET h == Head(s)
             rest == SortByTimestamp(Tail(s))
         IN  SelectSeq(rest, LAMBDA e : e.timestamp < h.timestamp)
             \o <<h>>
             \o SelectSeq(rest, LAMBDA e : e.timestamp >= h.timestamp)

\* all_events.truncate(limit)
Truncated(s, limit) == Prefix(s, limit)

\* the cursor: the JSON text of CursorState {offsets}, base64url encoded;
\* here the flat list of the numbers the text carries, in order
RECURSIVE CursorEncode_Swapped(_)
RECURSIVE CursorEncode(_)
CursorEncode_Swapped(offs) ==
    IF offs = <<>> THEN <<>>
    ELSE <<Head(offs).offset, Head(offs).partition>> \o CursorEncode_Swapped(Tail(offs))
CursorEncode(offs) ==
    IF offs = <<>> THEN <<>>
    ELSE <<Head(offs).partition, Head(offs).offset>> \o CursorEncode(Tail(offs))

CursorValid(cursor) == Len(cursor) % 2 = 0

CursorDecode(cursor) ==
    [i \in 1..(Len(cursor) \div 2) |->
        [partition |-> cursor[2 * i - 1], offset |-> cursor[2 * i]]]

\* per_partition_limit
PerPartitionLimit(limit, partition_count) == Max(limit \div partition_count, 1)

\* get_stream and get_subscription.  The field previous holds the response
\* the worker got from its last poll when no row was written since that poll
\* began.
PollBegin(w, sub, limit) ==
    /\ ~Busy(w)
    /\ IF meta = {}
       THEN /\ task' = [task EXCEPT ![w] = Done("poll", "StreamNotFound")]
            /\ UNCHANGED stable
       ELSE IF sub \notin DOMAIN subs
       THEN /\ task' = [task EXCEPT ![w] = Done("poll", "SubscriptionNotFound")]
            /\ UNCHANGED stable
       ELSE IF \E stream \in meta : stream.partition_count = 0
       THEN \* limit / stream.partition_count
            /\ task' = [task EXCEPT ![w] =
                   Panicked("poll", "attempt to divide by zero")]
            /\ UNCHANGED stable
       ELSE /\ \E stream \in meta :
                 task' = [task EXCEPT ![w] =
                     [op |-> "poll", sub |-> sub, limit |-> limit,
                      partition_count |-> stream.partition_count,
                      per_partition_limit |-> PerPartitionLimit(limit, stream.partition_count),
                      partition |-> 0, all_events |-> <<>>, offsets |-> <<>>,
                      read |-> <<>>, follows |-> lastCommit[sub],
                      previous |-> IF task[w].op = "polled" /\ stable[w]
                                   THEN <<[sub |-> task[w].sub, limit |-> task[w].limit,
                                           events |-> task[w].events,
                                           cursor |-> task[w].cursor]>>
                                   ELSE <<>>]]
            /\ stable' = [stable EXCEPT ![w] = TRUE]
    /\ UNCHANGED <<tableVars, clock, hiSeq, delivered, lastCommit, era, eraOf>>
    /\ UNCHANGED <<acked, reach>>

\* One turn of the loop over the partitions, with offset the value the turn
\* has for get_offset(..).unwrap_or(0) and evs the value it has for
\* read_events(..).unwrap_or_default(): the push on offsets.  After the last
\* partition: sort, truncate, encode the cursor and respond.  The fields read
\* (the offsets the poll read) and follows (the commit the poll follows with
\* no OFFSET write since) record history.
PollTurnOf(w, offset, evs) ==
    /\ task[w].op = "poll"
    /\ LET p == task[w].partition
           po == [partition |-> p,
                  offset |-> IF evs # <<>> THEN evs[Len(evs)].sequence ELSE offset]
           all_events == task[w].all_events \o evs
           offs == Append(task[w].offsets, po)
           read == Append(task[w].read, offset)
           follows == IF lastCommit[task[w].sub] = task[w].follows
                      THEN task[w].follows ELSE <<>>
           response == Truncated(SortByTimestamp(all_events), task[w].limit)
       IN  IF p + 1 < task[w].partition_count
           THEN /\ task' = [task EXCEPT ![w] =
                       [@ EXCEPT !.partition = p + 1, !.all_events = all_events,
                                 !.offsets = offs, !.read = read, !.follows = follows]]
                /\ UNCHANGED delivered
           ELSE /\ task' = [task EXCEPT ![w] =
                       [op |-> "polled", sub |-> task[w].sub, limit |-> task[w].limit,
                        events |-> response, cursor |-> CursorEncode(offs),
                        offsets |-> offs, read |-> read, follows |-> follows,
                        previous |-> task[w].previous]]
                /\ delivered' = [delivered EXCEPT ![task[w].sub] =
                       @ \cup {<<e.partition, e.sequence>> : e \in Range(response)}]

\* the turn whose get_offset and read_events the store answers
PollTurn(w) ==
    /\ task[w].op = "poll"
    /\ LET p == task[w].partition
           offset == get_offset(task[w].sub, p)
       IN  PollTurnOf(w, offset, read_events(p, offset, task[w].per_partition_limit))

\* the offset a turn of the loop advances its partition to
Advanced(w) ==
    LET p == task[w].partition
        offset == get_offset(task[w].sub, p)
        evs == read_events(p, offset, task[w].per_partition_limit)
    IN  IF evs # <<>> THEN evs[Len(evs)].sequence ELSE offset

\* handle_poll calls get_stream, get_subscription, get_offset and read_events
\* and nothing else of the store: a turn of the loop leaves every row as it is
PollPartition_AutoCommit(w) ==
    /\ PollTurn(w)
    /\ offsets' = set_offset(task[w].sub, task[w].partition, Advanced(w), clock)
    /\ UNCHANGED <<meta, counter, events, subs, clock, hiSeq, lastCommit, stable, era, eraOf>>
    /\ UNCHANGED <<compacted, acked, reach>>
PollPartition(w) ==
    /\ PollTurn(w)
    /\ UNCHANGED <<tableVars, clock, hiSeq, lastCommit, stable, era, eraOf>>
    /\ UNCHANGED <<acked, reach>>

\* the turn in which the store answers get_offset, read_events or both with
\* an error: unwrap_or(0) gives the offset 0, unwrap_or_default() no events
PollPartitionFails(w) ==
    /\ task[w].op = "poll"
    /\ \E offsetOk, eventsOk \in BOOLEAN :
          /\ ~(offsetOk /\ eventsOk)
          /\ LET p == task[w].partition
                 offset == IF offsetOk THEN get_offset(task[w].sub, p) ELSE 0
                 evs == IF eventsOk
                        THEN read_events(p, offset, task[w].per_partition_limit)
                        ELSE <<>>
             IN  PollTurnOf(w, offset, evs)
    /\ UNCHANGED <<tableVars, clock, hiSeq, lastCommit, stable, era, eraOf>>
    /\ UNCHANGED <<acked, reach>>

\* ------------------------------------------------------------------------
\* handle_commit
\* ------------------------------------------------------------------------
\* the decoding of the cursor, of which a failure leaves the handler by `?`
CommitBegin(w, sub, cursor) ==
    /\ ~Busy(w)
    /\ IF ~CursorValid(cursor)
       THEN /\ task' = [task EXCEPT ![w] = Failed("commit", "InvalidCursor")]
            /\ UNCHANGED lastCommit
       ELSE IF CursorDecode(cursor) = <<>>
       THEN /\ task' = [task EXCEPT ![w] = Done("commit", "Ok")]
            /\ lastCommit' = [lastCommit EXCEPT ![sub] = <<>>]
       ELSE /\ task' = [task EXCEPT ![w] =
                   [op |-> "commit", sub |-> sub, offsets |-> CursorDecode(cursor), i |-> 1]]
            /\ UNCHANGED lastCommit
    /\ UNCHANGED <<tableVars, clock, hiSeq, delivered, stable, era, eraOf>>
    /\ UNCHANGED <<acked, reach>>

\* commit_offsets: set_offset for the entry the loop is at
CommitOffset(w) ==
    /\ task[w].op = "commit"
    /\ LET po == task[w].offsets[task[w].i]
           last == task[w].i = Len(task[w].offsets)
       IN  /\ \E t \in 0..MaxClock :
                /\ Now(t)
                /\ offsets' = set_offset(task[w].sub, po.partition, po.offset, t)
           /\ task' = [task EXCEPT ![w] =
                  IF last THEN Done("commit", "Ok") ELSE [@ EXCEPT !.i = @ + 1]]
           /\ lastCommit' = [lastCommit EXCEPT ![task[w].sub] =
                  IF last THEN task[w].offsets ELSE <<>>]
    /\ Wrote
    /\ UNCHANGED <<meta, counter, events, subs, hiSeq, delivered, era, eraOf>>
    /\ UNCHANGED <<compacted, acked, reach>>

\* ------------------------------------------------------------------------
\* The change records of the table and the compactor (compactor/src/main.rs)
\* ------------------------------------------------------------------------
\* serde_json::Value: the kind of the document and its JSON text (for a
\* string, the characters it holds)
JsonNull == [kind |-> "null", text |-> "null"]
JsonEmptyObject == [kind |-> "object", text |-> "{}"]
JsonValues ==
    {JsonNull, JsonEmptyObject,
     [kind |-> "object", text |-> "{v:2}"],
     [kind |-> "number", text |-> "7"],
     [kind |-> "string", text |-> "7"],
     [kind |-> "string", text |-> "hello"]}

\* to_item on the data of an Event: the attribute serde_dynamo makes of a
\* serde_json::Value
ToAttribute(v) ==
    [type |-> CASE v.kind = "object" -> "M"
                [] v.kind = "string" -> "S"
                [] v.kind = "number" -> "N"
                [] v.kind = "null"   -> "NULL",
     value |-> v.text]

\* serde_json::from_str(s).ok(): <<the document>>, or <<>> when s is no JSON text
ParseJson(s) ==
    CASE s = "7"     -> <<[kind |-> "number", text |-> "7"]>>
      [] s = "{v:2}" -> <<[kind |-> "object", text |-> "{v:2}"]>>
      [] s = "{}"    -> <<JsonEmptyObject>>
      [] s = "null"  -> <<JsonNull>>
      [] OTHER       -> <<>>

\* the serde form of DateTime<Utc>, an RFC 3339 text, and parse_from_rfc3339
FormatTimestamp(t) == [rfc3339 |-> t]
ParseTimestamp(s) == s.rfc3339

\* the one stream id of the model

\* The item publish_events puts for an event: to_item(Event) with PK and SK.
\* Every attribute is <<value>>, or <<>> when the item lacks it; of SK the
\* prefix is kept.
Image(e) ==
    [SK |-> <<"SEQ#">>, stream_id |-> <<StreamId>>, key |-> <<e.key>>,
     event_type |-> <<e.event_type>>, sequence |-> <<e.sequence>>,
     partition |-> <<e.partition>>, data |-> <<ToAttribute(e.data)>>,
     timestamp |-> <<FormatTimestamp(e.timestamp)>>]

EmptyImage ==
    [SK |-> <<>>, stream_id |-> <<>>, key |-> <<>>, event_type |-> <<>>, sequence |-> <<>>,
     partition |-> <<>>, data |-> <<>>, timestamp |-> <<>>]

\* the change record of the put of the event row e
RecordOf(e) == [event_name |-> "INSERT", new_image |-> Image(e)]

\* the change records of the event rows of the table
RowRecords == {RecordOf(events[k]) : k \in DOMAIN events}

\* the record r with the attribute field taken out of its image
Without(r, field) == [r EXCEPT !.new_image[field] = <<>>]

\* the fields process_record requires, in the order it reads them
RequiredFields == <<"stream_id", "key", "event_type", "sequence", "partition">>

\* the record passes the parse of lines 57-86
WellFormed(r) == \A i \in DOMAIN RequiredFields : r.new_image[RequiredFields[i]] # <<>>

\* the record is one of an event row: INSERT or MODIFY, with an image, SK of SEQ#
IsEventRecord_AnySK(r) ==
    /\ r.event_name \in {"INSERT", "MODIFY"}
    /\ r.new_image # EmptyImage
IsEventRecord(r) ==
    /\ r.event_name \in {"INSERT", "MODIFY"}
    /\ r.new_image # EmptyImage
    /\ r.new_image.SK = <<"SEQ#">>

\* the data of the compacted row: lines 88-97
DataOfImage(av) ==
    IF av = <<>> THEN JsonNull
    ELSE CASE av[1].type = "S" -> IF ParseJson(av[1].value) # <<>>
                                  THEN ParseJson(av[1].value)[1] ELSE JsonNull
           [] av[1].type = "M" -> JsonEmptyObject
           [] OTHER            -> JsonNull

\* CompactedEvent of lines 116-124; now is the value of Utc::now()
CompactedOf(r, now) ==
    LET img == r.new_image
    IN  [key |-> img.key[1], event_type |-> img.event_type[1],
         data |-> DataOfImage(img.data), sequence |-> img.sequence[1],
         partition |-> img.partition[1],
         timestamp |-> IF img.timestamp # <<>> THEN ParseTimestamp(img.timestamp[1]) ELSE now]

\* existing.sequence >= sequence: the compacted row is at least as new
ShouldSkip_Strict(existing, sequence) == existing > sequence
ShouldSkip_Never(existing, sequence) == FALSE
ShouldSkip(existing, sequence) == existing >= sequence

\* The handler receives a batch of the change feed.  The fields before (the
\* compacted rows at that time) and previous (the same, kept when the batch
\* is the one the worker has just gone through) record history.
CompactBegin(w, records) ==
    /\ ~Busy(w)
    /\ records # <<>>
    /\ task' = [task EXCEPT ![w] =
           [op |-> "compact", pc |-> "read", records |-> records, i |-> 1,
            results |-> <<>>, compacted |-> <<>>, before |-> compacted,
            previous |-> IF /\ task[w].op = "done" /\ task[w].call = "compact"
                            /\ task[w].records = records
                         THEN <<compacted>> ELSE <<>>]]
    /\ UNCHANGED <<tableVars, clock, histVars, acked>>

\* the handler has returned
CompactDone(w, results, result) ==
    [op |-> "done", call |-> "compact", result |-> result,
     records |-> task[w].records, results |-> results,
     before |-> task[w].before, previous |-> task[w].previous]

\* The loop of the handler goes on after the record it is at, with what
\* process_record did of it (an Err is logged); after the last record the
\* handler returns Ok and the feed takes its records in the batch as
\* delivered.
AfterRecord_Abort(w, result) ==
    IF result \in {"error", "failed"}
    THEN /\ task' = [task EXCEPT ![w] =
                CompactDone(w, Append(task[w].results, result), "Err")]
         /\ UNCHANGED acked
    ELSE IF task[w].i = Len(task[w].records)
    THEN /\ task' = [task EXCEPT ![w] =
                CompactDone(w, Append(task[w].results, result), "Ok")]
         /\ acked' = acked \cup (Range(task[w].records) \cap RowRecords)
    ELSE /\ task' = [task EXCEPT ![w] =
                [@ EXCEPT !.pc = "read", !.i = @ + 1, !.results = Append(@, result)]]
         /\ UNCHANGED acked
AfterRecord(w, result) ==
    IF task[w].i = Len(task[w].records)
    THEN /\ task' = [task EXCEPT ![w] =
                CompactDone(w, Append(task[w].results, result), "Ok")]
         /\ acked' = acked \cup (Range(task[w].records) \cap RowRecords)
    ELSE /\ task' = [task EXCEPT ![w] =
                [@ EXCEPT !.pc = "read", !.i = @ + 1, !.results = Append(@, result)]]
         /\ UNCHANGED acked

\* process_record up to the answer of get_compacted: the record is passed
\* over, fails the parse, is found no newer than the compacted row, or is to
\* be written
CompactRead(w) ==
    /\ task[w].op = "compact"
    /\ task[w].pc = "read"
    /\ LET r == task[w].records[task[w].i]
       IN  IF ~IsEventRecord(r)
           THEN AfterRecord(w, "passed") /\ UNCHANGED clock
           ELSE IF ~WellFormed(r)
           THEN AfterRecord(w, "error") /\ UNCHANGED clock
           ELSE \E t \in 0..MaxClock :
                  /\ IF r.new_image.timestamp = <<>> THEN Now(t) ELSE t = clock /\ UNCHANGED clock
                  /\ LET ce == CompactedOf(r, t)
                     IN  IF /\ ce.key \in DOMAIN compacted
                            /\ ShouldSkip(compacted[ce.key].sequence, ce.sequence)
                         THEN AfterRecord(w, "skipped")
                         ELSE /\ task' = [task EXCEPT ![w] =
                                     [@ EXCEPT !.pc = "write", !.compacted = ce]]
                              /\ UNCHANGED acked
    /\ UNCHANGED <<tableVars, histVars>>

\* process_record when the store answers get_compacted with an error:
\* `if let Ok(Some(existing))` does not match, and the record is to be written
CompactReadFails(w) ==
    /\ task[w].op = "compact"
    /\ task[w].pc = "read"
    /\ LET r == task[w].records[task[w].i]
       IN  /\ IsEventRecord(r)
           /\ WellFormed(r)
           /\ \E t \in 0..MaxClock :
                 /\ IF r.new_image.timestamp = <<>> THEN Now(t) ELSE t = clock /\ UNCHANGED clock
                 /\ task' = [task EXCEPT ![w] =
                        [@ EXCEPT !.pc = "write", !.compacted = CompactedOf(r, t)]]
    /\ UNCHANGED <<tableVars, histVars, acked>>

\* put_compacted: put_item of the compacted row, without condition; ok is
\* whether the store took the put
CompactWrite(w, ok) ==
    /\ task[w].op = "compact"
    /\ task[w].pc = "write"
    /\ IF ok
       THEN /\ compacted' = Put(compacted, task[w].compacted.key, task[w].compacted)
            /\ Wrote
            /\ AfterRecord(w, "applied")
       ELSE /\ AfterRecord(w, "failed")
            /\ UNCHANGED <<compacted, stable>>
    /\ UNCHANGED reach
    /\ UNCHANGED <<meta, counter, events, subs, offsets, clock, hiSeq, delivered, lastCommit,
                   era, eraOf>>

\* ------------------------------------------------------------------------
\* Initial states
\* ------------------------------------------------------------------------
EmptyFunction == [x \in {} |-> 0]

\* the empty table
Init ==
    /\ meta = {}
    /\ counter = EmptyFunction
    /\ events = EmptyFunction
    /\ subs = EmptyFunction
    /\ offsets = EmptyFunction
    /\ clock = 0
    /\ task = [w \in Workers |-> Idle]
    /\ hiSeq = [p \in 0..(MaxPartitionCount - 1) |-> 0]
    /\ delivered = [s \in Subs |-> {}]
    /\ lastCommit = [s \in Subs |-> <<>>]
    /\ stable = [w \in Workers |-> FALSE]
    /\ era = [s \in Subs |-> "none"]
    /\ reach = EmptyFunction
    /\ eraOf = EmptyFunction
    /\ compacted = EmptyFunction
    /\ acked = {}

\* workers, clock and history at the start
InitRest ==
    /\ clock = 0
    /\ task = [w \in Workers |-> Idle]
    /\ hiSeq = [p \in 0..(MaxPartitionCount - 1) |-> 0]
    /\ delivered = [s \in Subs |-> {}]
    /\ lastCommit = [s \in Subs |-> <<>>]
    /\ stable = [w \in Workers |-> FALSE]
    /\ eraOf = EmptyFunction
    /\ acked = {}

\* the table after create_stream has returned Ok on the empty table
InitStream(pcs) ==
    /\ \E n \in pcs :
        /\ meta = {[stream_id |-> StreamId, partition_count |-> n,
                    retention_hours |-> 168, created_at |-> 0]}
        /\ counter = [p \in 0..(n - 1) |-> 0]
    /\ events = EmptyFunction
    /\ subs = EmptyFunction
    /\ offsets = EmptyFunction
    /\ compacted = EmptyFunction
    /\ era = [s \in Subs |-> "none"]
    /\ reach = EmptyFunction
    /\ InitRest

\* the table after create_stream and then create_subscription of s1 with
\* start_from = earliest have returned Ok
InitSubscribed(pcs) ==
    /\ \E n \in pcs :
        /\ meta = {[stream_id |-> StreamId, partition_count |-> n,
                    retention_hours |-> 168, created_at |-> 0]}
        /\ counter = [p \in 0..(n - 1) |-> 0]
        /\ offsets = [k \in {"s1"} \X (0..(n - 1)) |-> [offset |-> 0, committed_at |-> 0]]
    /\ events = EmptyFunction
    /\ subs = [s \in {"s1"} |-> [created_at |-> 0]]
    /\ compacted = EmptyFunction
    /\ era = [s \in Subs |-> IF s = "s1" THEN "created" ELSE "none"]
    /\ reach = [k \in {"s1"} \X (0..(MaxPartitionCount - 1)) |-> 0]
    /\ InitRest

\* ------------------------------------------------------------------------
\* Concurrent publishers on a created stream
\* ------------------------------------------------------------------------
Publish(w) ==
    \/ \E evs \in Batches(PlainEvents) : PublishBegin(w, evs)
    \/ IncrementSequence(w)
    \/ PutEvent(w)

InitPublish == InitStream(PartitionCounts)
NextPublish == \E w \in {"w1", "w2"} : Publish(w)
SpecPublish == InitPublish /\ [][NextPublish]_vars

\* the step of w is the put_item of an event row
PutsEvent(w) ==
    /\ task[w].op = "publish" /\ task[w].pc = "put"
    /\ task'[w] # task[w]

\* C1: in any interleaving of concurrent publish calls on a stream, every
\* put_item of an event row creates a row that did not exist (no publish
\* writes over the row of another one), and two publishers never hold the
\* same allocated (partition, sequence).
C1_UniqueSequence ==
    [][/\ \A w \in Workers :
            PutsEvent(w) => <<EventPartition(w), task[w].sequence>> \notin DOMAIN events
       /\ \A w \in Workers, v \in Workers :
            (/\ w # v
             /\ task'[w].op = "publish" /\ task'[w].pc = "put"
             /\ task'[v].op = "publish" /\ task'[v].pc = "put") =>
                <<partition(task'[w].events[task'[w].i].key, task'[w].partition_count),
                  task'[w].sequence>> #
                <<partition(task'[v].events[task'[v].i].key, task'[v].partition_count),
                  task'[v].sequence>>]_vars

\* two publish calls have both returned Ok with events of one partition
C1_Witness ==
    /\ task["w1"].op = "done" /\ task["w1"].call = "publish" /\ task["w1"].result = "Ok"
    /\ task["w2"].op = "done" /\ task["w2"].call = "publish" /\ task["w2"].result = "Ok"
    /\ \E i \in DOMAIN task["w1"].published, j \in DOMAIN task["w2"].published :
         task["w1"].published[i].partition = task["w2"].published[j].partition

\* ------------------------------------------------------------------------
\* Stream administration with a publisher: create, delete, publish
\* ------------------------------------------------------------------------
CreateStream(w) ==
    \/ \E n \in PartitionCounts : CreateStreamBegin(w, n, 168)
    \/ InitPartitionCounter(w)

DeleteStream(w) ==
    \/ DeleteStreamBegin(w)
    \/ DeleteMeta(w)
    \/ DeleteCounter(w)

\* the requests that carry one event
Singles(S) == {<<e>> : e \in S}

PublishOne(w) ==
    \/ \E evs \in Singles(PayloadEvents) : PublishBegin(w, evs)
    \/ IncrementSequence(w)
    \/ PutEvent(w)

NextAdmin ==
    \/ CreateStream("w1")
    \/ DeleteStream("w1")
    \/ PublishOne("w2")
SpecAdmin == Init /\ [][NextAdmin]_vars

\* the step of w is an allocation by increment_sequence
Allocates(w) ==
    /\ task[w].op = "publish" /\ task[w].pc = "increment"
    /\ task'[w].op = "publish" /\ task'[w].pc = "put"

\* C2: over create_stream, publish and delete_stream, the counter of a
\* partition is never below a value it held earlier, and every sequence
\* publish allocates is strictly greater than every sequence allocated
\* earlier in that partition.
C2_CounterMonotonic ==
    [][/\ \A p \in DOMAIN counter' : counter'[p] >= hiSeq[p]
       /\ \A w \in Workers :
            Allocates(w) => task'[w].sequence > hiSeq[EventPartition(w)]]_vars

\* C3: an event row that exists stays, with the same key, event_type, data
\* and timestamp, whatever operation follows.
C3_EventImmutable ==
    [][\A k \in DOMAIN events : k \in DOMAIN events' /\ events'[k] = events[k]]_vars

\* ------------------------------------------------------------------------
\* A publisher and a consumer that polls and commits the cursor it was given
\* ------------------------------------------------------------------------
PublishPlain(w) ==
    \/ \E evs \in Singles(PlainEvents) : PublishBegin(w, evs)
    \/ IncrementSequence(w)
    \/ PutEvent(w)

\* the client polls again whenever it likes
Poll(w, limits) ==
    \/ \E limit \in limits : PollBegin(w, "s1", limit)
    \/ PollPartition(w)

\* the client commits the cursor of the response it holds
CommitGiven(w) ==
    \/ task[w].op = "polled" /\ CommitBegin(w, "s1", task[w].cursor)
    \/ CommitOffset(w)

\* the client polls, commits the cursor it was given, and polls again
PollAndCommit(w, limits) ==
    \/ task[w].op # "polled" /\ \E limit \in limits : PollBegin(w, "s1", limit)
    \/ PollPartition(w)
    \/ CommitGiven(w)

InitPoll == InitSubscribed(PartitionCounts)
NextPoll ==
    \/ PublishPlain("w1")
    \/ PollAndCommit("w2", Limits)
SpecPoll == InitPoll /\ [][NextPoll]_vars

\* the step of w completes a poll
Responds(w) == task[w].op = "poll" /\ task'[w].op = "polled"

\* C4: for every poll and every partition p, each event row of p that exists
\* at the poll with sequence in (off_p, adv_p] is among the events of the
\* response, off_p being the offset the poll read and adv_p the offset it
\* put in the cursor.
C4_CursorCoversOnlyReturned ==
    [][\A w \in Workers :
         Responds(w) =>
            \A k \in DOMAIN events :
               (/\ k[1] + 1 \in DOMAIN task'[w].read
                /\ task'[w].read[k[1] + 1] < k[2]
                /\ k[2] <= task'[w].offsets[k[1] + 1].offset)
               => events[k] \in Range(task'[w].events)]_vars

\* C6: the response of a poll that follows a completed commit, with no write
\* of an OFFSET row since, holds no event of a partition named in the
\* committed cursor whose sequence is at most the cursor's offset for it.
C6_PollAfterCommit ==
    \A w \in Workers :
       (task[w].op = "polled" /\ task[w].follows # <<>>) =>
          \A e \in Range(task[w].events), po \in Range(task[w].follows) :
             po.partition = e.partition => e.sequence > po.offset

\* a poll that follows a commit has returned an event above the committed
\* offset of a partition in which an event row at or below that offset exists
C6_Witness ==
    \E w \in Workers :
       /\ task[w].op = "polled" /\ task[w].follows # <<>>
       /\ \E e \in Range(task[w].events), po \in Range(task[w].follows) :
            /\ po.partition = e.partition
            /\ po.offset >= 1
            /\ <<po.partition, po.offset>> \in DOMAIN events

\* ------------------------------------------------------------------------
\* Publishes first, then a consumer that drains the stream
\* ------------------------------------------------------------------------
PositiveLimits == 1..MaxLimit

InitDrain == InitSubscribed(PartitionCounts)
NextDrain ==
    \/ task["w2"].op = "idle" /\ PublishPlain("w1")
    \/ ~Busy("w1") /\ PollAndCommit("w2", PositiveLimits)
SpecDrain == InitDrain /\ [][NextDrain]_vars

\* the rows of a single partition in sequence order
Log(p) == LET found == {k[2] : k \in {j \in DOMAIN events : j[1] = p}}
              seqs == Ascending(found)
          IN  [i \in DOMAIN seqs |-> events[<<p, seqs[i]>>]]

\* C7: with no publish in between, a consumer of an Earliest subscription
\* that polls with limit >= 1 and commits each cursor has, when a poll
\* returns no event, been given exactly the event rows of the stream; on a
\* single partition of N events a first poll with limit >= N returns the
\* sequences 1..N in order.
C7_DrainsEverything ==
    /\ (task["w2"].op = "polled" /\ task["w2"].events = <<>>) =>
          delivered["s1"] = DOMAIN events
    /\ (/\ task["w2"].op = "polled"
        /\ Len(task["w2"].read) = 1
        /\ task["w2"].read[1] = 0
        /\ task["w2"].limit >= Cardinality(DOMAIN events)) =>
          /\ task["w2"].events = Log(0)
          /\ \A i \in DOMAIN task["w2"].events : task["w2"].events[i].sequence = i

\* ------------------------------------------------------------------------
\* Two publishers on one partition and a consumer
\* ------------------------------------------------------------------------
InitRace == InitSubscribed({1})
NextRace ==
    \/ PublishPlain("w1")
    \/ PublishPlain("w2")
    \/ PollAndCommit("w3", PositiveLimits)
SpecRace == InitRace /\ [][NextRace]_vars

\* C5: with concurrent publishers and a consumer that polls and commits the
\* cursor it was given, every event row the committed offset has passed has
\* been returned by a poll of the subscription (the committed offset of this
\* consumer never goes back, so a row it has passed is not read again).
C5_NoEventPassedOver ==
    \A k \in DOMAIN events :
       k[2] <= get_offset("s1", k[1]) => k \in delivered["s1"]

\* ------------------------------------------------------------------------
\* A subscription created with start_from = latest, a publisher, a consumer
\* ------------------------------------------------------------------------
SubscribeLatest(w) ==
    \/ task[w].op = "idle" /\ SubscribeBegin(w, "s1", "latest")
    \/ SubscribePut(w)
    \/ SubscribeReadCounter(w)
    \/ SubscribeSetOffset(w)

InitLatest == InitStream({1})
NextLatest ==
    \/ PublishPlain("w1")
    \/ SubscribeLatest("w2")
    \/ PollAndCommit("w3", PositiveLimits)
SpecLatest == InitLatest /\ [][NextLatest]_vars

\* C9: a subscription created with start_from = latest is never given an
\* event row written before create_subscription was called, and an event
\* published by a call made after create_subscription returned is given to
\* it before the committed offset passes it.
C9_LatestSeesOnlyNew ==
    \A k \in DOMAIN events :
       /\ eraOf[k]["s1"] = "before" => k \notin delivered["s1"]
       /\ (eraOf[k]["s1"] = "after" /\ k[2] <= get_offset("s1", k[1])) =>
             k \in delivered["s1"]

\* ------------------------------------------------------------------------
\* A publisher and a client that polls again and again, committing at times
\* ------------------------------------------------------------------------
InitRepoll == InitSubscribed(PartitionCounts)
NextRepoll ==
    \/ PublishPlain("w1")
    \/ Poll("w2", Limits)
    \/ CommitGiven("w2")
SpecRepoll == InitRepoll /\ [][NextRepoll]_vars

\* the step is one of the poll of w
PollStep(w) ==
    /\ task'[w] # task[w]
    /\ \/ task[w].op = "poll"
       \/ task'[w].op = "poll"
       \/ task'[w].op = "done" /\ task'[w].call = "poll"

\* C8: no step of a poll changes a row (META, counters, events, SUB and
\* OFFSET rows), and a poll that ends with no row written since the previous
\* poll of the same client and limit began returns the events and the cursor
\* of that previous poll.
C8_PollReadOnly ==
    [][\A w \in Workers :
         /\ PollStep(w) => UNCHANGED tableVars
         /\ (Responds(w) /\ stable[w]) =>
               \A prev \in Range(task'[w].previous) :
                  (prev.limit = task'[w].limit /\ prev.sub = task'[w].sub) =>
                     /\ task'[w].events = prev.events
                     /\ task'[w].cursor = prev.cursor]_vars

\* a poll has returned events again, with the cursor beyond the committed
\* offsets, after an undisturbed poll of the same limit
C8_Witness ==
    \E w \in Workers :
       /\ task[w].op = "polled" /\ stable[w]
       /\ task[w].events # <<>>
       /\ \E prev \in Range(task[w].previous) : prev.limit = task[w].limit
       /\ \E i \in DOMAIN task[w].offsets : task[w].offsets[i].offset > task[w].read[i]

\* ------------------------------------------------------------------------
\* Concurrent creations of the stream, with a publisher
\* ------------------------------------------------------------------------
CreateOnce(w) ==
    \/ task[w].op = "idle" /\ \E n \in PartitionCounts, rh \in RetentionHours :
                                 CreateStreamBegin(w, n, rh)
    \/ InitPartitionCounter(w)

NextCreate ==
    \/ CreateOnce("w1")
    \/ CreateOnce("w2")
    \/ PublishPlain("w3")
SpecCreate == Init /\ [][NextCreate]_vars

\* the create_stream of w has passed the conditional put of META
Created(w) ==
    \/ task[w].op = "create_stream"
    \/ task[w].op = "done" /\ task[w].call = "create_stream" /\ task[w].result = "Ok"

\* the create_stream of w has failed with StreamAlreadyExists
Refused(w) ==
    task[w].op = "done" /\ task[w].call = "create_stream"
    /\ task[w].result = "StreamAlreadyExists"

\* the step is the conditional put of the create_stream of w
CreateStep(w) ==
    /\ task[w].op = "idle"
    /\ Created(w)' \/ Refused(w)'

\* C10: a create_stream that finds the META row fails with
\* StreamAlreadyExists and leaves META, the counters and every other row as
\* they are; of the creations of one id, one succeeds and the others fail.
C10_DuplicateCreate ==
    [][\A w \in Workers :
         /\ (CreateStep(w) /\ meta # {}) => (Refused(w)' /\ UNCHANGED tableVars)
         /\ (CreateStep(w) /\ meta = {}) => Created(w)'
         /\ Cardinality({v \in Workers : Created(v)'}) <= 1
         /\ Refused(w)' => \E v \in Workers : Created(v)']_vars

\* a second create_stream has failed on a stream that holds events
C10_Witness ==
    /\ \E w \in Workers : Refused(w)
    /\ \E w \in Workers : Created(w) /\ task[w].op = "done"
    /\ events # EmptyFunction

\* ------------------------------------------------------------------------
\* A subscription created twice, with a publisher and a consumer
\* ------------------------------------------------------------------------
Subscribe(w, starts) ==
    \/ \E start_from \in starts : SubscribeBegin(w, "s1", start_from)
    \/ SubscribePut(w)
    \/ SubscribeReadCounter(w)
    \/ SubscribeSetOffset(w)

\* the cursors a client may send: the texts that decode to a list of
\* (partition, offset) and the texts that do not decode
Cursors == SeqsUpTo(0..1, 3)

\* the client commits a cursor of its own making
Commit(w, cursors) ==
    \/ \E cursor \in cursors : CommitBegin(w, "s1", cursor)
    \/ CommitOffset(w)

InitResubscribe == InitStream(PartitionCounts)
NextResubscribe ==
    \/ task["w3"].op = "idle" /\ PublishPlain("w1")
    \/ Subscribe("w2", {"earliest"})
    \/ Commit("w2", {<<0, 1>>})
    \/ Subscribe("w3", StartFrom)
SpecResubscribe == InitResubscribe /\ [][NextResubscribe]_vars

\* the step is the conditional put of the SUB row by the create_subscription of w
SubPutStep(w) == task[w].op = "create_subscription" /\ task[w].pc = "put" /\ task'[w] # task[w]

\* the create_subscription of w has failed with SubscriptionAlreadyExists
SubRefused(w) ==
    task[w].op = "done" /\ task[w].call = "create_subscription"
    /\ task[w].result = "SubscriptionAlreadyExists"

\* C11: a create_subscription that finds the SUB row fails with
\* SubscriptionAlreadyExists and leaves the SUB row and every OFFSET row (and
\* every other row) as it is, whatever start_from it carries.
C11_DuplicateSubscribe ==
    [][\A w \in Workers :
         (SubPutStep(w) /\ task[w].sub \in DOMAIN subs) =>
            (SubRefused(w)' /\ UNCHANGED tableVars)]_vars

\* a create_subscription has failed on a subscription whose committed offset
\* is above 0 and below the counter of its partition (neither the earliest
\* nor the latest offset)
C11_Witness ==
    \E w \in Workers :
       /\ SubRefused(w)
       /\ \E k \in DOMAIN offsets :
            /\ offsets[k].offset > 0
            /\ k[2] \in DOMAIN counter /\ counter[k[2]] > offsets[k].offset

\* ------------------------------------------------------------------------
\* A publisher and two compactor workers on the records of the event rows
\* ------------------------------------------------------------------------
JsonEvents(keys, data) == [key : keys, event_type : EventTypes, data : data]

PublishJson(w, keys, data) ==
    \/ \E evs \in Singles(JsonEvents(keys, data)) : PublishBegin(w, evs)
    \/ IncrementSequence(w)
    \/ PutEvent(w)

\* a compactor worker: it is given batches, each store call of it succeeds
\* or fails as oks allows
Compact(w, batches, oks) ==
    \/ \E records \in batches : CompactBegin(w, records)
    \/ CompactRead(w)
    \/ \E ok \in oks : CompactWrite(w, ok)

InitCompactRace == InitStream({1})
NextCompactRace ==
    \/ PublishJson("w1", {"x"}, {JsonEmptyObject})
    \/ Compact("w2", Singles(RowRecords), {TRUE})
    \/ Compact("w3", Singles(RowRecords), {TRUE})
SpecCompactRace == InitCompactRace /\ [][NextCompactRace]_vars

\* C12: in every step, also with two compactor workers on records of one key,
\* a compacted row stays and its sequence does not decrease.
C12_CompactedMonotonic ==
    [][\A key \in DOMAIN compacted :
         /\ key \in DOMAIN compacted'
         /\ compacted'[key].sequence >= compacted[key].sequence]_vars

\* ------------------------------------------------------------------------
\* A publisher and one compactor worker that is given one record at a time
\* ------------------------------------------------------------------------
\* the records of the event rows, also with the timestamp taken out
StampedOrNot == RowRecords \cup {Without(r, "timestamp") : r \in RowRecords}

InitCompact == InitStream({1})
NextCompact ==
    \/ PublishJson("w1", Keys, {JsonEmptyObject})
    \/ Compact("w2", Singles(StampedOrNot), {TRUE})
SpecCompact == InitCompact /\ [][NextCompact]_vars

\* the step of w ends a batch of the compactor
Completes(w) == task[w].op = "compact" /\ task'[w].op = "done"

\* C13: when the worker has processed a record and processes the same record
\* again, the compacted rows after the second processing are those after the
\* first (and so after any number of processings).
C13_Idempotent ==
    [][\A w \in Workers :
         Completes(w) =>
            \A after \in Range(task'[w].previous) : compacted' = after]_vars

\* a record without timestamp was processed a second time, at a later time
\* of the clock than the one its compacted row was written at
C13_Witness ==
    \E w \in Workers :
       /\ task[w].op = "done" /\ task[w].call = "compact"
       /\ task[w].previous # <<>>
       /\ LET r == task[w].records[1]
          IN  /\ IsEventRecord(r) /\ WellFormed(r)
              /\ r.new_image.timestamp = <<>>
              /\ r.new_image.key[1] \in DOMAIN compacted
              /\ compacted[r.new_image.key[1]].sequence = r.new_image.sequence[1]
              /\ compacted[r.new_image.key[1]].timestamp < clock

\* ------------------------------------------------------------------------
\* Events of every kind of data and one compactor worker
\* ------------------------------------------------------------------------
InitCompactData == InitStream({1})
NextCompactData ==
    \/ PublishJson("w1", {"x"}, JsonValues)
    \/ Compact("w2", Singles(RowRecords), {TRUE})
SpecCompactData == InitCompactData /\ [][NextCompactData]_vars

\* the compacted row that holds the event e
RowOfEvent(e) ==
    [key |-> e.key, event_type |-> e.event_type, data |-> e.data, sequence |-> e.sequence,
     partition |-> e.partition, timestamp |-> e.timestamp]

\* C15: when the compactor writes the compacted row for the record of an
\* event row, the key, event_type, data, sequence, partition and timestamp of
\* the compacted row are those of the event.
C15_CompactedEqualsEvent ==
    [][\A w \in Workers :
         (task[w].op = "compact" /\ task[w].pc = "write" /\ compacted' # compacted) =>
            \A k \in DOMAIN events :
               RecordOf(events[k]) = task[w].records[task[w].i] =>
                  compacted'[events[k].key] = RowOfEvent(events[k])]_vars

\* ------------------------------------------------------------------------
\* Publishes first, then one compactor worker that is given batches of
\* records in any order
\* ------------------------------------------------------------------------
ReplayBatches == SeqsUpTo(RowRecords, MaxRecords)

InitReplay == InitStream({1})
NextReplay ==
    \/ task["w2"].op = "idle" /\ PublishJson("w1", {"x"}, {JsonEmptyObject})
    \/ ~Busy("w1") /\ Compact("w2", ReplayBatches, {TRUE})
SpecReplay == InitReplay /\ [][NextReplay]_vars

\* the sequence of the compacted row of key in the rows table, 0 without row
SeqOf(table, key) == IF key \in DOMAIN table THEN table[key].sequence ELSE 0

\* the positions of the batch that hold a well-formed record of an event of key
ValidAt(records, key) ==
    {i \in DOMAIN records :
        /\ IsEventRecord(records[i]) /\ WellFormed(records[i])
        /\ records[i].new_image.key[1] = key}

\* the greatest number of the non-empty finite set S
MaxOf(S) == CHOOSE x \in S : \A y \in S : y <= x

\* C14: when the worker has gone through a batch, the compacted row of every
\* key is at the highest of the sequence it had before and the sequences of
\* the records of the key in the batch, in whatever order they came (after
\* 2, 1, 2 on no row: sequence 2).
C14_NewerStays ==
    \A w \in Workers :
       (task[w].op = "done" /\ task[w].call = "compact") =>
          \A key \in Keys :
             SeqOf(compacted, key) =
                MaxOf({SeqOf(task[w].before, key)} \cup
                      {task[w].records[i].new_image.sequence[1] :
                          i \in ValidAt(task[w].records, key)})

\* the records of sequences 2, 1, 2 of key x were processed in that order on
\* no compacted row, and the row is at sequence 2
C14_Witness ==
    \E w \in Workers :
       /\ task[w].op = "done" /\ task[w].call = "compact"
       /\ Len(task[w].records) = 3
       /\ ValidAt(task[w].records, "x") = {1, 2, 3}
       /\ task[w].records[1].new_image.sequence = <<2>>
       /\ task[w].records[2].new_image.sequence = <<1>>
       /\ task[w].records[3].new_image.sequence = <<2>>
       /\ "x" \notin DOMAIN task[w].before
       /\ task[w].results = <<"applied", "skipped", "skipped">>
       /\ compacted["x"].sequence = 2

\* ------------------------------------------------------------------------
\* Publishes first, then one compactor worker that is given batches with a
\* record that is malformed or not one of an event
\* ------------------------------------------------------------------------
\* the records of the event rows with one of the required fields taken out
Poisoned ==
    {Without(r, RequiredFields[i]) : r \in RowRecords, i \in DOMAIN RequiredFields}

\* the record of a deleted item: no new image
Removed == {[event_name |-> "REMOVE", new_image |-> EmptyImage]}

\* such a record alone, or with records of event rows before and after it
PoisonBatches ==
    {before \o <<r>> \o after :
        before \in SeqsUpTo(RowRecords, 1), r \in Poisoned \cup Removed,
        after \in SeqsUpTo(RowRecords, 1)}

InitPoison == InitStream({1})
NextPoison ==
    \/ task["w2"].op = "idle" /\ PublishJson("w1", {"x"}, {JsonEmptyObject})
    \/ ~Busy("w1") /\ Compact("w2", PoisonBatches, {TRUE})
SpecPoison == InitPoison /\ [][NextPoison]_vars

\* the record the worker w is at lacks a required field
AtPoison(w) ==
    /\ task[w].op = "compact" /\ task[w].pc = "read"
    /\ IsEventRecord(task[w].records[task[w].i])
    /\ ~WellFormed(task[w].records[task[w].i])

\* C17: the step on a record that lacks a required field writes no row and
\* goes on to the next record of the batch (or ends the batch with Ok), and
\* when the batch is done every well-formed event record of it, before or
\* after the malformed one, was applied or found no newer than the row.
C17_PoisonSkipped ==
    [][\A w \in Workers :
         /\ (AtPoison(w) /\ task'[w] # task[w]) =>
               /\ UNCHANGED tableVars
               /\ IF task[w].i < Len(task[w].records)
                  THEN task'[w].op = "compact" /\ task'[w].i = task[w].i + 1
                  ELSE task'[w].op = "done" /\ task'[w].result = "Ok"
         /\ Completes(w) =>
               \A key \in Keys : \A i \in ValidAt(task'[w].records, key) :
                  /\ task'[w].results[i] \in {"applied", "skipped"}
                  /\ SeqOf(compacted', key) >= task'[w].records[i].new_image.sequence[1]]_vars

\* a batch with a malformed record between two well-formed ones is done, and
\* both well-formed records were applied
C17_Witness ==
    \E w \in Workers :
       /\ task[w].op = "done" /\ task[w].call = "compact"
       /\ task[w].results = <<"applied", "error", "applied">>
       /\ compacted["x"].sequence = 2

\* ------------------------------------------------------------------------
\* The change feed: every record of an event row is given to the compactor
\* until a batch that holds it has returned Ok; a put of the compacted row
\* may fail
\* ------------------------------------------------------------------------
\* the records the feed has still to deliver
Pending == RowRecords \ acked

PublishFeed == PublishJson("w1", Keys, {JsonEmptyObject})
CompactFeed == Compact("w2", SeqsUpTo(Pending, MaxBatch), {TRUE, FALSE})

InitFeed == InitStream({1})
NextFeed == PublishFeed \/ CompactFeed
\* the compactor is invoked as long as records are pending; the publishers
\* publish as long as they like
SpecFeed == InitFeed /\ [][NextFeed]_vars /\ WF_vars(CompactFeed)

\* C16: with the feed delivering every record until its batch has returned
\* Ok and the compactor scheduled fairly, from some time on the compacted row
\* of every key holds the highest sequence of the event rows of the key.
C16_EventuallyLatest ==
    <>[](\A k \in DOMAIN events :
            /\ events[k].key \in DOMAIN compacted
            /\ compacted[events[k].key].sequence >= events[k].sequence)

\* ------------------------------------------------------------------------
\* An administrator that creates and deletes the stream, and a client that
\* calls every operation whether the stream is there or not
\* ------------------------------------------------------------------------
Client(w) ==
    \/ GetStream(w)
    \/ PublishPlain(w)
    \/ Subscribe(w, {"latest"})
    \/ Poll(w, {MaxLimit})
    \/ DeleteStream(w)

\* the administrator works between the client's calls
CreateOne(w) ==
    \/ CreateStreamBegin(w, 1, 168)
    \/ InitPartitionCounter(w)

NextNoStream ==
    \/ ~Busy("w2") /\ CreateOne("w1")
    \/ ~Busy("w2") /\ DeleteStream("w1")
    \/ ~Busy("w1") /\ Client("w2")
SpecNoStream == Init /\ [][NextNoStream]_vars

\* the calls that verify the stream first
StreamCalls == {"get_stream", "publish", "create_subscription", "poll", "delete_stream"}

\* the step of w is the first of one of these calls
BeginsCall(w) ==
    /\ ~Busy(w)
    /\ task'[w] # task[w]
    /\ \/ task'[w].op \in StreamCalls
       \/ task'[w].op = "done" /\ task'[w].call \in StreamCalls

\* C18: get, publish, create_subscription, poll and delete called while the
\* stream has no META row end at once with StreamNotFound, and no row is
\* written.
C18_StreamNotFound ==
    [][\A w \in Workers :
         (BeginsCall(w) /\ meta = {}) =>
            /\ task'[w].op = "done"
            /\ task'[w].result = "StreamNotFound"
            /\ UNCHANGED tableVars]_vars

\* a poll has failed with StreamNotFound on a deleted stream of which the
\* subscription and an event row are left
C18_Witness ==
    \E w \in Workers :
       /\ task[w] = Done("poll", "StreamNotFound")
       /\ meta = {}
       /\ "s1" \in DOMAIN subs
       /\ events # EmptyFunction

\* ------------------------------------------------------------------------
\* Polls and commits on a stream while its subscription is created
\* ------------------------------------------------------------------------
InitCommit == InitStream(PartitionCounts)
NextCommit ==
    \/ Subscribe("w1", {"earliest", "latest"})
    \/ Poll("w2", {1})
    \/ Commit("w3", Cursors)
SpecCommit == InitCommit /\ [][NextCommit]_vars

\* the step of w is the first of a poll or of a commit on s1
PollOrCommitBegins(w) ==
    \/ \E limit \in Limits : PollBegin(w, "s1", limit)
    \/ \E cursor \in Cursors : CommitBegin(w, "s1", cursor)

\* C19: a poll and a commit that name a subscription without SUB row on an
\* existing stream end with SubscriptionNotFound, and the commit writes no
\* OFFSET row.
C19_SubscriptionNotFound ==
    [][\A w \in Workers :
         (meta # {} /\ "s1" \notin DOMAIN subs /\ PollOrCommitBegins(w)) =>
            /\ task'[w].op = "done"
            /\ task'[w].result = "SubscriptionNotFound"
            /\ UNCHANGED offsets]_vars

\* C20: a commit whose cursor does not decode is answered with the
\* InvalidCursor error, status 400, and no OFFSET row changes.
C20_InvalidCursor ==
    [][\A w \in Workers : \A cursor \in Cursors :
         (~CursorValid(cursor) /\ CommitBegin(w, "s1", cursor)) =>
            /\ task'[w].op = "done"
            /\ task'[w].result = "InvalidCursor"
            /\ error_response(task'[w].result) = [status |-> 400, code |-> "InvalidCursor"]
            /\ UNCHANGED offsets]_vars

\* ------------------------------------------------------------------------
\* create_stream with every request a client may send
\* ------------------------------------------------------------------------
StreamIds == {"", StreamId}

\* models::CreateStreamRequest
CreateStreamRequests ==
    [stream_id : StreamIds, partition_count : 0..MaxPartitionCount,
     retention_hours : {0, 168}]

\* the rows of the model are those of one stream: the requests of a
\* behaviour name the stream of the META row
NamesTheStream(req) == \A stream \in meta : stream.stream_id = req.stream_id

CreateAny(w) ==
    \/ \E req \in CreateStreamRequests : NamesTheStream(req) /\ CreateStreamOf(w, req)
    \/ InitPartitionCounter(w)

NextValidate ==
    \/ CreateAny("w1")
    \/ CreateAny("w2")
    \/ GetStream("w3")
SpecValidate == Init /\ [][NextValidate]_vars

\* the requests the specification of create_stream rules out
InvalidRequest(req) ==
    req.stream_id = "" \/ req.partition_count = 0 \/ req.retention_hours = 0

\* C21: create_stream with an empty stream_id, with partition_count = 0 or
\* with retention_hours = 0 ends with Validation and writes neither the META
\* row nor a COUNTER row.
C21_CreateValidated ==
    [][\A w \in Workers : \A req \in CreateStreamRequests :
         (InvalidRequest(req) /\ CreateStreamOf(w, req)) =>
            /\ task'[w] = Done("create_stream", "Validation")
            /\ UNCHANGED <<meta, counter>>]_vars

\* ------------------------------------------------------------------------
\* Every request on a stream created with any partition_count
\* ------------------------------------------------------------------------
CreateSized(w) ==
    \/ \E n \in 0..MaxPartitionCount : CreateStreamBegin(w, n, 168)
    \/ InitPartitionCounter(w)

\* the clients work on the stream once create_stream has returned, the
\* publisher first
NextPanic ==
    \/ CreateSized("w1")
    \/ ~Busy("w1") /\ task["w3"].op = "idle" /\ PublishPlain("w2")
    \/ ~Busy("w1") /\ ~Busy("w2") /\ Subscribe("w3", {"latest"})
    \/ ~Busy("w1") /\ PollAndCommit("w3", Limits)
SpecPanic == Init /\ [][NextPanic]_vars

\* C22: no request ends in a panic: every operation ends with a result or a
\* typed error.
C22_NoPanic ==
    \A w \in Workers : task[w].op = "done" => task[w].result # "Panic"

\* ------------------------------------------------------------------------
\* Publish requests with any list of events, also the empty one and events
\* with an empty key or an empty type
\* ------------------------------------------------------------------------
AnyEvents == [key : {"", "x"}, event_type : {"", "t"}, data : {"d1"}]

PublishAny(w) ==
    \/ \E evs \in SeqsUpTo(AnyEvents, MaxBatch) : PublishRequest(w, evs)
    \/ IncrementSequence(w)
    \/ PutEvent(w)

InitPublishAny == InitStream(PartitionCounts)
NextPublishAny == PublishAny("w1") \/ PublishAny("w2")
SpecPublishAny == InitPublishAny /\ [][NextPublishAny]_vars

InvalidEvent(ev) == ev.key = "" \/ ev.event_type = ""

\* w takes a step of a publish whose loop is at an invalid event
AtInvalidEvent(w) ==
    /\ task[w].op = "publish"
    /\ InvalidEvent(task[w].events[task[w].i])
    /\ task'[w] # task[w]

\* the empty list is answered with Validation and nothing is written
EmptyRefused ==
    \A w \in Workers :
        PublishRequest(w, <<>>) =>
            task'[w] = Done("publish", "Validation") /\ UNCHANGED tableVars

\* C23: a publish with an empty list of events ends with Validation, and for
\* an event with an empty key or an empty event_type no sequence is
\* allocated and no event row is written.
C23_PublishValidated ==
    [][/\ EmptyRefused
       /\ \A w \in Workers : AtInvalidEvent(w) => UNCHANGED <<counter, events>>]_vars

\* ------------------------------------------------------------------------
\* An administrator that creates and deletes the stream while events are
\* published and compacted and a subscription is created
\* ------------------------------------------------------------------------
NextDelete ==
    \/ CreateOne("w1")
    \/ DeleteStream("w1")
    \/ GetStream("w1")
    \/ task["w3"].op = "idle" /\ PublishJson("w2", {"x"}, {JsonEmptyObject})
    \/ Subscribe("w3", {"latest"})
    \/ Compact("w3", Singles(RowRecords), {TRUE})
SpecDelete == Init /\ [][NextDelete]_vars

\* w takes a step of delete_stream
DeleteStep(w) ==
    /\ \/ task[w].op = "delete_stream"
       \/ ~Busy(w) /\ task'[w].op = "delete_stream"
    /\ task'[w] # task[w]

\* delete_stream of w returns Ok
Deleted(w) == DeleteStep(w) /\ task'[w] = Done("delete_stream", "Ok")

C25_OffsetNamesEvent ==
    \A k \in DOMAIN offsets :
        \/ <<k[2], offsets[k].offset>> \in DOMAIN events
        \/ offsets[k].offset = 0
        \/ k[2] \in DOMAIN counter /\ offsets[k].offset = counter[k[2]]

\* ------------------------------------------------------------------------
\* A stream that is deleted and created again, with a consumer that commits
\* the cursors its polls return
\* ------------------------------------------------------------------------
NextBound ==
    \/ ~Busy("w2") /\ ~Busy("w3") /\ CreateOne("w1")
    \/ ~Busy("w2") /\ ~Busy("w3") /\ DeleteStream("w1")
    \/ ~Busy("w1") /\ PublishJson("w2", {"x"}, {JsonEmptyObject})
    \/ ~Busy("w1") /\ Subscribe("w3", {"latest"})
    \/ ~Busy("w1") /\ PollAndCommit("w3", {MaxLimit})
SpecBound == Init /\ [][NextBound]_vars

\* C26: the committed offset of a subscription on a partition is at most the
\* counter of the partition when the subscription was created plus the
\* sequences allocated on it since.
C26_OffsetWithinReach ==
    \A k \in DOMAIN offsets \cap DOMAIN reach :
        k[1] \in DOMAIN subs => offsets[k].offset <= reach[k]

\* ------------------------------------------------------------------------
\* A consumer that commits what it polled, and a second client that commits
\* a cursor below the committed offset
\* ------------------------------------------------------------------------
\* the cursor of offset 0 for partition 0, sent while the committed offset of
\* the partition is above 0
Rewind(w) ==
    \/ get_offset("s1", 0) > 0 /\ CommitBegin(w, "s1", CursorEncode(<<[partition |-> 0, offset |-> 0]>>))
    \/ CommitOffset(w)

InitRewind == InitSubscribed({1})
NextRewind ==
    \/ task["w2"].op = "idle" /\ PublishPlain("w1")
    \/ ~Busy("w3") /\ PollAndCommit("w2", PositiveLimits)
    \/ ~Busy("w2") /\ Rewind("w3")
SpecRewind == InitRewind /\ [][NextRewind]_vars

\* w takes the step of commit_offsets for the entry its loop is at
CommitStep(w) == task[w].op = "commit" /\ task'[w] # task[w]

\* w takes the last step of a poll, and the poll follows a completed commit
\* with no write of an OFFSET row since
RespondsAfterCommit(w) ==
    /\ task[w].op = "poll"
    /\ task'[w].op = "polled"
    /\ task'[w].follows # <<>>

\* C27: commit sets the OFFSET row of each partition of the cursor to the
\* cursor's offset, also when that is below the committed offset, and the
\* poll that follows returns the events of the partition above the offset
\* it was set to.
C27_CommitRewinds ==
    [][\A w \in Workers :
         /\ CommitStep(w) =>
               LET po == task[w].offsets[task[w].i]
               IN  offsets'[<<task[w].sub, po.partition>>].offset = po.offset
         /\ (RespondsAfterCommit(w) /\ task[w].partition_count = 1) =>
               \A po \in Range(task'[w].follows) :
                   po.partition = 0 =>
                      task'[w].events =
                         Truncated(read_events(0, po.offset, task[w].per_partition_limit),
                                   task[w].limit)]_vars

\* the committed offset was above 0, the commit of offset 0 has returned, and
\* the poll that follows has returned the event of sequence 1 again
C27_Witness ==
    /\ task["w3"] = Done("commit", "Ok")
    /\ task["w2"].op = "polled"
    /\ task["w2"].follows = <<[partition |-> 0, offset |-> 0]>>
    /\ <<0, 1>> \in delivered["s1"]
    /\ \E e \in Range(task["w2"].events) : e.sequence = 1

\* ------------------------------------------------------------------------
\* A consumer that decodes the cursor of its poll, encodes the object again
\* and commits that cursor
\* ------------------------------------------------------------------------
\* the cursor a client makes of the object it decoded from cursor
Reencoded(cursor) == CursorEncode(CursorDecode(cursor))

CommitReencoded(w) ==
    \/ task[w].op = "polled" /\ CommitBegin(w, "s1", Reencoded(task[w].cursor))
    \/ CommitOffset(w)

InitRoundTrip == InitSubscribed(PartitionCounts)
NextRoundTrip ==
    \/ PublishPlain("w1")
    \/ Poll("w2", PositiveLimits)
    \/ CommitReencoded("w2")
SpecRoundTrip == InitRoundTrip /\ [][NextRoundTrip]_vars

\* C28: the cursor of a poll decodes to the object {offsets} the poll
\* encoded, and the commit of the cursor encoded again from that object is
\* accepted and writes the offsets the commit of the original cursor writes.
C28_CursorRoundTrip ==
    [][\A w \in Workers :
         (task[w].op = "polled" /\ CommitBegin(w, "s1", Reencoded(task[w].cursor))) =>
            /\ CursorValid(task[w].cursor)
            /\ CursorDecode(task[w].cursor) = task[w].offsets
            /\ task'[w].op = "commit"
            /\ task'[w].offsets = CursorDecode(task[w].cursor)]_vars

\* the commit of a cursor encoded again has returned and the OFFSET rows
\* hold its offsets, one of them above 0
C28_Witness ==
    /\ task["w2"] = Done("commit", "Ok")
    /\ lastCommit["s1"] # <<>>
    /\ \A po \in Range(lastCommit["s1"]) :
           offsets[<<"s1", po.partition>>].offset = po.offset
    /\ \E po \in Range(lastCommit["s1"]) : po.offset >= 1

\* the events publish calls have returned
Returned ==
    UNION {Range(task[w].published) :
             w \in {v \in Workers : task[v].op = "done" /\ task[v].call = "publish"
                                                       /\ task[v].result = "Ok"}}

\* C29: two events of one key, published in one call or in several, by one
\* worker or by several, are returned with and stored under one partition,
\* the one the key and the partition_count of the stream determine.
C29_KeyAffinity ==
    \A stream \in meta :
       /\ \A k \in DOMAIN events :
             /\ events[k].partition = k[1]
             /\ k[1] = partition(events[k].key, stream.partition_count)
       /\ \A j \in DOMAIN events, k \in DOMAIN events :
             events[j].key = events[k].key => j[1] = k[1]
       /\ \A pe \in Returned : pe.partition = partition(pe.key, stream.partition_count)
       /\ \A pe \in Returned, qe \in Returned :
             pe.key = qe.key => pe.partition = qe.partition

\* on a stream of two partitions two workers have each published the key k1,
\* one of them in a call of two events, and the other key lies in the other
\* partition
C29_Witness ==
    /\ \E stream \in meta : stream.partition_count = 2
    /\ \A w \in {"w1", "w2"} :
          /\ task[w].op = "done" /\ task[w].call = "publish" /\ task[w].result = "Ok"
          /\ \E pe \in Range(task[w].published) : pe.key = "k1"
    /\ \E w \in {"w1", "w2"} : Len(task[w].published) = 2
    /\ \E k \in DOMAIN events : events[k].key = "x" /\ k[1] = 0
    /\ \E k \in DOMAIN events : events[k].key = "k1" /\ k[1] = 1

\* ------------------------------------------------------------------------
\* One client that creates a single-partition stream and publishes one
\* event after the other, beside a subscription and its polls
\* ------------------------------------------------------------------------
NextInOrder ==
    \/ CreateOne("w1")
    \/ PublishPlain("w1")
    \/ Subscribe("w2", StartFrom)
    \/ Poll("w2", PositiveLimits)
SpecInOrder == Init /\ [][NextInOrder]_vars

\* the publish of w returns Ok
Published(w) ==
    /\ task[w].op = "publish"
    /\ task'[w].op = "done"
    /\ task'[w].result = "Ok"

\* C30: on a single-partition stream the N-th successful publish of one
\* event returns sequence N: the returned sequences are 1, 2, ..., N in the
\* order of the publishes.  Each successful publish before has written one
\* event row.
C30_SequencesInOrder ==
    [][\A w \in Workers :
         Published(w) =>
            /\ Len(task'[w].published) = 1
            /\ task'[w].published[1].sequence = Cardinality(DOMAIN events) + 1]_vars

\* the second publish has returned sequence 2 after the first returned 1
C30_Witness ==
    /\ task["w1"].op = "done" /\ task["w1"].call = "publish" /\ task["w1"].result = "Ok"
    /\ task["w1"].published[1].sequence = 2
    /\ DOMAIN events = {<<0, 1>>, <<0, 2>>}

\* ------------------------------------------------------------------------
\* A publisher of batches and a publisher of single events, on a store
\* that may answer any call of the loop with an error
\* ------------------------------------------------------------------------
PublishOrFail(w, batches) ==
    \/ \E evs \in batches : PublishBegin(w, evs)
    \/ IncrementSequence(w)
    \/ IncrementSequenceFails(w)
    \/ PutEvent(w)
    \/ PutEventFails(w)

InitBatch == InitStream(PartitionCounts)
NextBatch ==
    \/ PublishOrFail("w1", Batches(PublishEvents))
    \/ PublishOrFail("w2", Singles(PlainEvents))
SpecBatch == InitBatch /\ [][NextBatch]_vars

\* w takes a step of the loop of publish_events
LoopStep(w) == task[w].op = "publish" /\ task'[w] # task[w]

\* the step leaves the loop with an error
LoopFails(w) == LoopStep(w) /\ task'[w].op = "done" /\ task'[w].result # "Ok"

\* C31: publish_events goes through the events in the order given and is
\* not atomic: at every step for event i the events before i, and they only,
\* have been pushed in their order and their rows are there under their
\* allocated sequences; a row a step adds is the row of event i; the step
\* that fails writes and removes no event row and returns the error.
C31_BatchNotAtomic ==
    [][\A w \in Workers :
         /\ LoopStep(w) =>
               /\ Len(task[w].published) = task[w].i - 1
               /\ \A j \in 1..(task[w].i - 1) :
                     LET pe == task[w].published[j]
                         k == <<pe.partition, pe.sequence>>
                         ev == task[w].events[j]
                     IN  /\ pe.key = ev.key
                         /\ k \in DOMAIN events'
                         /\ events'[k].key = ev.key
                         /\ events'[k].event_type = ev.event_type
                         /\ events'[k].data = ev.data
               /\ \A k \in DOMAIN events' \ DOMAIN events :
                     LET ev == task[w].events[task[w].i]
                     IN  /\ k[2] = task[w].sequence
                         /\ events'[k].key = ev.key
                         /\ events'[k].data = ev.data
         /\ LoopFails(w) =>
               /\ task'[w].result = "Database"
               /\ task'[w].published = task[w].published
               /\ events' = events]_vars

\* a batch of two events has failed at its second event after the row of its
\* first was written, and that row is there
C31_Witness ==
    /\ task["w1"].op = "done" /\ task["w1"].call = "publish"
    /\ task["w1"].result = "Database"
    /\ Len(task["w1"].published) = 1
    /\ <<task["w1"].published[1].partition, task["w1"].published[1].sequence>> \in DOMAIN events

\* ------------------------------------------------------------------------
\* Partitioners of every count, asked about keys
\* ------------------------------------------------------------------------
PartitionerCounts == 0..MaxPartitionerCount
PartitionerKeys == {"", "x", "k1", "k2", "b"}

NextPartitioner ==
    \E w \in {"w1", "w2"} :
       \/ \E n \in PartitionerCounts : NewPartitioner(w, n)
       \/ \E key \in PartitionerKeys : Partition(w, key)
SpecPartitioner == Init /\ [][NextPartitioner]_vars

\* C32: for every key and every partition count n > 0 the partition is in
\* [0, n) and two evaluations for one key give one partition; a partitioner
\* of count 0 is refused by the assertion.
C32_PartitionInRange ==
    [][\A w \in Workers :
         /\ NewPartitioner(w, 0) =>
               task'[w] = Panicked("partitioner", "partition_count must be > 0")
         /\ \A n \in PartitionerCounts \ {0} :
               NewPartitioner(w, n) => task'[w].op = "partitioner"
         /\ task'[w].op = "partitioner" =>
               /\ \A r \in Range(task'[w].results) :
                     r.partition >= 0 /\ r.partition < task'[w].partition_count
               /\ \A q \in Range(task'[w].results), r \in Range(task'[w].results) :
                     q.key = r.key => q.partition = r.partition]_vars

\* a partitioner of three partitions or more has twice answered one key with
\* its last partition, and a partitioner of count 0 was refused
C32_Witness ==
    /\ \E w \in Workers :
          /\ task[w].op = "partitioner"
          /\ task[w].partition_count >= 3
          /\ Len(task[w].results) = 2
          /\ task[w].results[1].key = task[w].results[2].key
          /\ task[w].results[1].partition = task[w].partition_count - 1
    /\ \E w \in Workers : task[w] = Panicked("partitioner", "partition_count must be > 0")

\* ------------------------------------------------------------------------
\* A create_subscription of any start_from while events are published
\* ------------------------------------------------------------------------
InitSubscribe == InitStream(PartitionCounts)
NextSubscribe ==
    \/ PublishPlain("w1")
    \/ Subscribe("w2", StartFrom)
SpecSubscribe == InitSubscribe /\ [][NextSubscribe]_vars

\* the step is the read of the counter by the create_subscription of w
ReadCounterStep(w) ==
    task[w].op = "create_subscription" /\ task[w].pc = "counter" /\ task'[w] # task[w]

\* the step is the set_offset of the create_subscription of w
SetOffsetStep(w) ==
    task[w].op = "create_subscription" /\ task[w].pc = "offset" /\ task'[w] # task[w]

\* C33: a create_subscription that has put the SUB row goes through the
\* partitions 0..partition_count-1 in order and returns Ok after the last;
\* for each it writes the OFFSET row, with 0 under earliest and compacted,
\* and under latest with the sequence the COUNTER row of the partition held
\* at the read made for that partition.
C33_InitialOffsets ==
    [][\A w \in Workers :
         /\ (SubPutStep(w) /\ task'[w].op = "create_subscription") =>
               /\ task'[w].partition = 0
               /\ task'[w].pc = IF task[w].start_from = "latest" THEN "counter" ELSE "offset"
         /\ ReadCounterStep(w) =>
               /\ task[w].start_from = "latest"
               /\ task[w].partition \in DOMAIN counter
               /\ task'[w].offset = counter[task[w].partition]
               /\ task'[w].pc = "offset"
               /\ task'[w].partition = task[w].partition
         /\ SetOffsetStep(w) =>
               LET k == <<task[w].sub, task[w].partition>>
               IN  /\ k \in DOMAIN offsets'
                   /\ offsets'[k].offset =
                         IF task[w].start_from = "latest" THEN task[w].offset ELSE 0
                   /\ IF task[w].partition = task[w].partition_count - 1
                      THEN task'[w] = Done("create_subscription", "Ok")
                      ELSE /\ task'[w].op = "create_subscription"
                           /\ task'[w].partition = task[w].partition + 1
                           /\ task'[w].pc = IF task[w].start_from = "latest"
                                            THEN "counter" ELSE "offset"]_vars

\* a create_subscription has returned Ok on a stream of two partitions: both
\* OFFSET rows are there, one of them at the counter its partition had
\* reached
C33_Witness ==
    /\ task["w2"] = Done("create_subscription", "Ok")
    /\ \E stream \in meta : stream.partition_count = 2
    /\ \A p \in 0..1 : <<"s1", p>> \in DOMAIN offsets
    /\ \E p \in 0..1 : offsets[<<"s1", p>>].offset >= 1

\* ------------------------------------------------------------------------
\* Polls of a subscription that is being created, beside a publisher
\* ------------------------------------------------------------------------
InitCursor == InitStream(PartitionCounts)
NextCursor ==
    \/ ~Busy("w3") /\ PublishPlain("w1")
    \/ task["w2"].op = "idle" /\ \E start_from \in {"earliest", "latest"} :
                                    SubscribeBegin("w2", "s1", start_from)
    \/ SubscribePut("w2")
    \/ SubscribeReadCounter("w2")
    \/ SubscribeSetOffset("w2")
    \/ ~Busy("w1") /\ task["w3"].op # "polled" /\ Poll("w3", PositiveLimits)
SpecCursor == InitCursor /\ [][NextCursor]_vars

\* w takes a turn of the loop of handle_poll
TurnStep(w) == task[w].op = "poll" /\ task'[w] # task[w]

\* the rows of partition p above the sequence off
RowsAbove(p, off) == {k \in DOMAIN events : k[1] = p /\ k[2] > off}

\* C34: the turn of a poll for partition p adds the entry of p to the
\* offsets of the cursor: the committed offset off_p (0 when the OFFSET row
\* is missing) when no event row of p lies above it, else the sequence of
\* the last of the rows above off_p the poll read, which are the first
\* per_partition_limit of them.  The cursor of the response is made of these
\* entries, one for each partition of the stream, in order.
C34_CursorEntries ==
    [][\A w \in Workers :
         /\ TurnStep(w) =>
               LET p == task[w].partition
                   k == <<task[w].sub, p>>
                   off == IF k \in DOMAIN offsets THEN offsets[k].offset ELSE 0
                   entry == task'[w].offsets[p + 1]
                   upto == {j \in RowsAbove(p, off) : j[2] <= entry.offset}
               IN  /\ Len(task'[w].offsets) = p + 1
                   /\ entry.partition = p
                   /\ IF RowsAbove(p, off) = {}
                      THEN entry.offset = off
                      ELSE /\ <<p, entry.offset>> \in RowsAbove(p, off)
                           /\ Cardinality(upto) <= task[w].per_partition_limit
                           /\ \/ Cardinality(upto) = task[w].per_partition_limit
                              \/ upto = RowsAbove(p, off)
         /\ Responds(w) =>
               /\ Len(task'[w].offsets) = task[w].partition_count
               /\ \A i \in DOMAIN task'[w].offsets : task'[w].offsets[i].partition = i - 1
               /\ CursorValid(task'[w].cursor)
               /\ CursorDecode(task'[w].cursor) = task'[w].offsets]_vars

\* a poll of a stream of two partitions has answered while the OFFSET row of
\* partition 1 was not written yet: the entry of partition 0 is at the event
\* read, that of partition 1 at 0
C34_Witness ==
    /\ task["w3"].op = "polled"
    /\ Len(task["w3"].offsets) = 2
    /\ task["w3"].offsets[1].offset >= 1
    /\ task["w3"].offsets[2].offset = 0
    /\ <<"s1", 1>> \notin DOMAIN offsets

\* the step is the increment_sequence of w for a partition that has no
\* COUNTER row, on a stream whose META row is there
AtMissingCounter(w) ==
    /\ meta # {}
    /\ task[w].op = "publish" /\ task[w].pc = "increment"
    /\ EventPartition(w) \notin DOMAIN counter
    /\ task'[w] # task[w]

\* C35: the publish of an event whose partition has no COUNTER row, the META
\* row being there, fails with the Internal error, writes no event row and
\* does not create the COUNTER row.
C35_MissingCounterInternal ==
    [][\A w \in Workers :
         AtMissingCounter(w) =>
            /\ task'[w] = Done("publish", "Internal")
            /\ UNCHANGED <<events, counter>>]_vars

\* ------------------------------------------------------------------------
\* A create_stream whose counter write may fail, followed by repeated
\* create_stream calls and publishes
\* ------------------------------------------------------------------------
CreateOrFail(w) ==
    \/ \E n \in PartitionCounts : CreateStreamBegin(w, n, 168)
    \/ InitPartitionCounter(w)
    \/ InitPartitionCounterFails(w)

\* the publisher goes on publishing events of a key as long as the counter
\* of its partition is missing or below MaxSeq
PublishWithin(w) ==
    \/ \E evs \in Singles(PlainEvents) :
          /\ \A stream \in meta :
                LET p == partition(evs[1].key, stream.partition_count)
                IN  IF p \in DOMAIN counter THEN counter[p] < MaxSeq ELSE TRUE
          /\ PublishBegin(w, evs)
    \/ IncrementSequence(w)
    \/ PutEvent(w)

NextHeal ==
    \/ CreateOrFail("w1")
    \/ PublishWithin("w2")

\* every call that has begun goes on, and the clients go on calling
SpecHeal ==
    Init /\ [][NextHeal]_vars /\ WF_vars(CreateOrFail("w1")) /\ WF_vars(PublishWithin("w2"))

\* every partition of the stream of the META row has its COUNTER row
Initialized ==
    \A stream \in meta : \A p \in 0..(stream.partition_count - 1) : p \in DOMAIN counter

\* C36: a stream does not stay partially initialized: whenever the META row
\* is there, later on every partition of the stream has its COUNTER row (or
\* the META row is gone).
C36_EventuallyInitialized == [](meta # {} => <>Initialized)

\* ------------------------------------------------------------------------
\* One worker, every operation in turn on one stream with two subscriptions:
\* publish, create_subscription, poll, commit, get, list and the compactor
\* ------------------------------------------------------------------------
\* the records of the event rows under an SK that is not one of an event, and
\* under an event name that is neither INSERT nor MODIFY
OtherRecords ==
    {[r EXCEPT !.new_image.SK = <<"OFFSET#">>] : r \in RowRecords}
        \cup {[r EXCEPT !.event_name = "REMOVE"] : r \in RowRecords}

SubscribeAny(w) ==
    \/ SubscribeBegin(w, "s1", "earliest")
    \/ SubscribeBegin(w, "s2", "latest")
    \/ SubscribePut(w)
    \/ SubscribeReadCounter(w)
    \/ SubscribeSetOffset(w)

PollAny(w) ==
    \/ PollBegin(w, "s1", MaxLimit)
    \/ PollPartition(w)

CommitAny(w) ==
    \/ CommitBegin(w, "s1", CursorEncode(<<[partition |-> 0, offset |-> 1]>>))
    \/ CommitOffset(w)

InitFrame == InitStream({1})
NextFrame ==
    \/ PublishJson("w1", {"x"}, {JsonEmptyObject})
    \/ SubscribeAny("w1")
    \/ PollAny("w1")
    \/ CommitAny("w1")
    \/ GetStream("w1")
    \/ ListStreams("w1")
    \/ Compact("w1", Singles(RowRecords \cup OtherRecords), {TRUE})
SpecFrame == InitFrame /\ [][NextFrame]_vars

\* w takes a step of the call named: it begins it, goes on with it or ends it
StepOf(w, call) ==
    /\ task'[w] # task[w]
    /\ \/ task[w].op = call
       \/ task'[w].op = call
       \/ task'[w].op = "done" /\ task'[w].call = call

\* the subscription the create_subscription or the commit of w names
NamedBy(w) ==
    IF task[w].op \in {"create_subscription", "commit"} THEN {task[w].sub}
    ELSE IF task'[w].op \in {"create_subscription", "commit"} THEN {task'[w].sub}
    ELSE {}

\* the SUB and OFFSET rows of the other subscriptions stay as they are
OthersKept(w) ==
    /\ \A sub \in (DOMAIN subs \cup DOMAIN subs') \ NamedBy(w) :
          sub \in DOMAIN subs /\ sub \in DOMAIN subs' /\ subs'[sub] = subs[sub]
    /\ \A k \in DOMAIN offsets \cup DOMAIN offsets' :
          k[1] \notin NamedBy(w) =>
             k \in DOMAIN offsets /\ k \in DOMAIN offsets' /\ offsets'[k] = offsets[k]

\* the record the compactor of w is at is not one of an event row
AtOtherRecord(w) ==
    /\ task[w].op = "compact" /\ task[w].pc = "read"
    /\ LET r == task[w].records[task[w].i]
       IN  \/ r.event_name \notin {"INSERT", "MODIFY"}
           \/ r.new_image.SK # <<"SEQ#">>

\* C37: a step of publish changes COUNTER and event rows of partitions of
\* the stream only, leaving every counter row in place and every event row
\* as it is; a step of create_subscription changes the SUB row and OFFSET
\* rows of its subscription only; a step of commit changes OFFSET rows of
\* its subscription only; a step of the compactor changes compacted rows
\* only; get, list and poll change no row; a change record that is not an
\* INSERT or MODIFY of an event row is passed over without a write.
C37_RoleOwnsRows ==
    [][\A w \in Workers :
         /\ StepOf(w, "publish") =>
               /\ UNCHANGED <<meta, subs, offsets, compacted>>
               /\ DOMAIN counter' = DOMAIN counter
               /\ \A stream \in meta :
                     /\ \A p \in DOMAIN counter :
                           counter'[p] # counter[p] => p < stream.partition_count
                     /\ \A k \in DOMAIN events' \ DOMAIN events : k[1] < stream.partition_count
               /\ \A k \in DOMAIN events : k \in DOMAIN events' /\ events'[k] = events[k]
         /\ StepOf(w, "create_subscription") =>
               /\ UNCHANGED <<meta, counter, events, compacted>>
               /\ OthersKept(w)
         /\ StepOf(w, "commit") =>
               /\ UNCHANGED <<meta, counter, events, subs, compacted>>
               /\ OthersKept(w)
         /\ StepOf(w, "compact") => UNCHANGED <<meta, counter, events, subs, offsets>>
         /\ StepOf(w, "get_stream") => UNCHANGED tableVars
         /\ StepOf(w, "list_streams") => UNCHANGED tableVars
         /\ PollStep(w) => UNCHANGED tableVars
         /\ (AtOtherRecord(w) /\ StepOf(w, "compact")) =>
               /\ UNCHANGED compacted
               /\ task'[w].op = "compact" => task'[w].pc = "read" /\ task'[w].i = task[w].i + 1]_vars

\* the commit on s1 has moved its offset and left that of s2, the event row
\* has its compacted row, and the compactor has passed over a record that is
\* not one of an event row
C37_Witness ==
    /\ task["w1"].op = "done" /\ task["w1"].call = "compact"
    /\ task["w1"].results = <<"passed">>
    /\ "x" \in DOMAIN compacted
    /\ {"s1", "s2"} \subseteq DOMAIN subs
    /\ <<"s1", 0>> \in DOMAIN offsets /\ offsets[<<"s1", 0>>].offset = 1
    /\ <<"s2", 0>> \in DOMAIN offsets /\ offsets[<<"s2", 0>>].offset = 0

\* ------------------------------------------------------------------------
\* The order of the events of one partition in a poll response
\* ------------------------------------------------------------------------
\* C38: in the response of every poll, of two events of one partition the one
\* that comes first has the lower sequence (checked with two publishers on
\* one partition, each of which reads its clock before it allocates).
C38_PartitionOrderInResponse ==
    \A w \in Workers :
       task[w].op = "polled" =>
          \A i, j \in DOMAIN task[w].events :
             (i < j /\ task[w].events[i].partition = task[w].events[j].partition)
                => task[w].events[i].sequence < task[w].events[j].sequence

\* ------------------------------------------------------------------------
\* A publisher and a consumer that polls and commits the cursor it was
\* given, where the store may answer a read of the poll with an error
\* ------------------------------------------------------------------------
InitPollFault == InitSubscribed({1})
NextPollFault ==
    \/ PublishPlain("w1")
    \/ PollAndCommit("w2", PositiveLimits)
    \/ PollPartitionFails("w2")
SpecPollFault == InitPollFault /\ [][NextPollFault]_vars

\* the entry the turn of w adds to the offsets of the cursor
EntryOf(w) == task'[w].offsets[Len(task'[w].offsets)]

\* C39: the entry a turn of a poll adds to the cursor for partition p is not
\* below the committed offset of p at that turn, also when the store answers
\* the read of the OFFSET row or of the events with an error; and the commit
\* of a cursor the poll returned lowers no committed offset.
C39_CursorNotBelowCommitted ==
    [][\A w \in Workers :
         /\ TurnStep(w) =>
               EntryOf(w).offset >= get_offset(task[w].sub, task[w].partition)
         /\ CommitStep(w) =>
               \A k \in DOMAIN offsets : offsets'[k].offset >= offsets[k].offset]_vars

\* ------------------------------------------------------------------------
\* Publishes first, then one compactor worker that is given batches of
\* records in any order, where the store may answer get_compacted with an
\* error
\* ------------------------------------------------------------------------
InitReadFault == InitStream({1})
NextReadFault ==
    \/ task["w2"].op = "idle" /\ PublishJson("w1", {"x"}, {JsonEmptyObject})
    \/ ~Busy("w1") /\ Compact("w2", ReplayBatches, {TRUE})
    \/ ~Busy("w1") /\ CompactReadFails("w2")
SpecReadFault == InitReadFault /\ [][NextReadFault]_vars

\* the compacted row of the key of the record w is at is at least as new as
\* the record
AtNoNewerRecord(w) ==
    /\ task[w].op = "compact" /\ task[w].pc = "read"
    /\ LET img == task[w].records[task[w].i].new_image
       IN  /\ img.key[1] \in DOMAIN compacted
           /\ ShouldSkip(compacted[img.key[1]].sequence, img.sequence[1])

\* C40: a step of the compactor in which get_compacted fails on a record no
\* newer than the compacted row of its key does not lead to the write of
\* the compacted row for the record (the failed read is not taken as an
\* absent row), and in no step does a compacted row go or its sequence
\* decrease.
C40_FailedReadNoWrite ==
    [][/\ \A w \in Workers :
            (CompactReadFails(w) /\ AtNoNewerRecord(w)) => task'[w].pc # "write"
       /\ \A key \in DOMAIN compacted :
             /\ key \in DOMAIN compacted'
             /\ compacted'[key].sequence >= compacted[key].sequence]_vars

====
